---- MODULE Spec2Model ----
(***************************************************************************)
(* Model of the hierarchical dungeon store (src/core/mongo_fs.py) over the *)
(* three MongoDB collections dungeons, rooms and items, with the partial   *)
(* unique indexes of src/core/db.py.                                       *)
(*                                                                         *)
(* A collection is a bag of documents: MongoDB tells two documents with    *)
(* the same fields apart only by _id, which no operation exposes, so a     *)
(* document's _id is its identity as one copy in the bag.  Every store     *)
(* function is an operator from a store and the call's arguments to the    *)
(* set of outcomes [S |-> store, res |-> envelope] it can produce; an      *)
(* outcome whose status is "raised" is a native exception leaving the      *)
(* function, with the writes made before it kept (no transaction).         *)
(***************************************************************************)
EXTENDS Bags, FiniteSets, Integers, Sequences, TLC

VARIABLES dungeons, rooms, items, res, nops, calls

vars == <<dungeons, rooms, items, res, nops, calls>>

\* ---------------------------------------------------------------- bounds
\* Number of store calls in a behaviour.
MaxOps == 3

\* ------------------------------------------------------- values and inputs
\* Python's None (an absent owner, summary, token or new_name).
None == "<None>"

\* utcnow() returns a formatted string, not a datetime.
UtcNow == "str"

\* datetime.fromtimestamp(epoch) is a datetime.
FromTimestamp == "datetime"

CATEGORIES == {"puzzles", "traps", "treasures", "enemies"}

Owners == {"u1", "u2"}

\* The user_id argument of a call: an owner, or absent (the default None)
\* or empty.
Callers == Owners \cup {None, ""}

\* ------------------------------------------------------------- documents
\* A test that takes every value for a present one.
TruthyAlways(v) == TRUE

\* Truthiness of a str-or-None value (``if not user_id``, ``if not name``).
Truthy(v) == v # None /\ v # ""

DungeonPath(d) == "/" \o d

RoomPath(d, r) == "/" \o d \o "/" \o r

CategoryPath(d, r, c) == "/" \o d \o "/" \o r \o "/" \o c

ItemPath(d, r, c, i) == "/" \o d \o "/" \o r \o "/" \o c \o "/" \o i

DungeonDoc(u, n, s, del, cat) ==
    [user_id |-> u, name |-> n, summary |-> s, deleted |-> del,
     created_at |-> cat, updated_at |-> UtcNow]

RoomDoc(u, d, n, s, del, cat) ==
    [user_id |-> u, dungeon |-> d, name |-> n, summary |-> s, deleted |-> del,
     created_at |-> cat, updated_at |-> UtcNow]

ItemDoc(u, d, r, c, n, s, notes, tags, meta, del, cat) ==
    [user_id |-> u, dungeon |-> d, room |-> r, category |-> c, name |-> n,
     summary |-> s, notes_md |-> notes, tags |-> tags, metadata |-> meta,
     deleted |-> del, created_at |-> cat, updated_at |-> UtcNow]

\* ------------------------------------------------------------ collections
Docs(B) == BagToSet(B)

InsertDoc(B, doc) == B (+) SetToBag({doc})

DeleteOneDoc(B, doc) == B (-) SetToBag({doc})

ReplaceOneDoc(B, old, new) == (B (-) SetToBag({old})) (+) SetToBag({new})

\* delete_many: every copy of the matched documents goes.
DeleteManyDocs(B, matched) ==
    [doc \in DOMAIN B \ matched |-> B[doc]]

\* Keys of the partial unique indexes: only documents with deleted = False
\* are indexed.
DungeonKey(doc) == <<doc.user_id, doc.name>>

RoomKey(doc) == <<doc.user_id, doc.dungeon, doc.name>>

ItemKey(doc) == <<doc.user_id, doc.dungeon, doc.room, doc.category, doc.name>>

\* The index key of a document of the collection.
KeyOf(coll, doc) ==
    CASE coll = "dungeons" -> DungeonKey(doc)
      [] coll = "rooms" -> RoomKey(doc)
      [] coll = "items" -> ItemKey(doc)

\* A store whose indexes were never built (an index that covers no document).
IndexedNever(doc) == FALSE

\* partialFilterExpression {"deleted": False}: the documents an index covers.
Indexed(doc) == ~doc.deleted

\* insert_one raises DuplicateKeyError: the document is indexed and its key
\* is taken by an indexed document.
DuplicateKey(B, doc, coll) ==
    /\ Indexed(doc)
    /\ \E other \in Docs(B) : Indexed(other) /\ KeyOf(coll, other) = KeyOf(coll, doc)

\* ---------------------------------------------------------------- results
\* The envelope of make_result, reduced to the fields the properties read:
\* status, code, result.token_hint, diff.applied, target.name and the listed
\* or matched children (out).
MakeResult(op, status, code) ==
    [op |-> op, status |-> status, code |-> code, token_hint |-> None,
     applied |-> FALSE, name |-> None, out |-> {}]

Ok(op, code, applied) == [MakeResult(op, "ok", code) EXCEPT !.applied = applied]

Error(op, code) == MakeResult(op, "error", code)

\* A native exception leaves the function instead of an envelope.
Raised(op, exc) == MakeResult(op, "raised", exc)

\* x.timestamp(): defined on a datetime, AttributeError on a str.
HasTimestamp(v) == v = "datetime"

Store(D, R, I) == [dungeons |-> D, rooms |-> R, items |-> I]

Outcome(S, r) == [S |-> S, res |-> r]

\* A delete that takes any token.
TokenAccepted(token, expected) == TRUE

\* ``if token != expected`` fails: the confirmation token is the expected one.
TokenMatches(token, expected) == token = expected

\* -------------------------------------------------------------- dungeons
create_dungeon(S, u, name, summary, exists_ok) ==
    LET op == "dungeon.create"
        doc == DungeonDoc(u, name, summary, FALSE, UtcNow)
        existing == {d \in Docs(S.dungeons) :
                        d.name = name /\ d.user_id = u /\ ~d.deleted}
        \* the envelope reads doc["created_at"].timestamp() and
        \* doc["updated_at"].timestamp()
        Envelope(S2, d, code) ==
            IF HasTimestamp(d.created_at) /\ HasTimestamp(d.updated_at)
            THEN Outcome(S2, Ok(op, code, code = "CREATED"))
            ELSE Outcome(S2, Raised(op, "AttributeError"))
    IN  IF ~Truthy(u) THEN {Outcome(S, Error(op, "ERROR_VALIDATION"))}
        ELSE IF ~DuplicateKey(S.dungeons, doc, "dungeons")
        THEN {Envelope([S EXCEPT !.dungeons = InsertDoc(@, doc)], doc, "CREATED")}
        ELSE IF ~exists_ok THEN {Outcome(S, Error(op, "ERROR_CONFLICT"))}
        ELSE IF existing = {} THEN {Outcome(S, Error(op, "ERROR_CONFLICT"))}
        ELSE {Envelope(S, d, "NOOP") : d \in existing}

\* update_many under a partial unique index.  MongoDB applies the update one
\* document at a time and stops at the first duplicate key, keeping the
\* documents already updated; the order is the collection's natural order,
\* which no query here fixes.  Every matched document gets the same
\* {"$set": {field: value}}, so an update is refused exactly when its new key
\* is held by an indexed document the filter does not match.  The result is
\* the set of [B, ok] the call can end with.
update_many(B, matched, field, value, coll) ==
    LET F(doc) == [doc EXCEPT ![field] = value]
        matching == {doc \in matched : F(doc) # doc}
        others == [doc \in DOMAIN B \ matched |-> B[doc]]
        refused == {doc \in matching : DuplicateKey(others, F(doc), coll)}
        Upd(U) == BagOfAll(LAMBDA doc : IF doc \in U THEN F(doc) ELSE doc, B)
    IN  IF refused = {}
        THEN {[B |-> Upd(matching), ok |-> TRUE]}
        ELSE {[B |-> Upd(U), ok |-> FALSE] : U \in SUBSET (matching \ refused)}

list_dungeons(S, u) ==
    LET op == "dungeon.list"
        docs == {d \in Docs(S.dungeons) : d.user_id = u /\ ~d.deleted}
    IN  IF ~Truthy(u) THEN {Outcome(S, Error(op, "ERROR_VALIDATION"))}
        ELSE {Outcome(S, [Ok(op, "LIST", FALSE) EXCEPT !.out =
                {[name |-> d.name, summary |-> d.summary, deleted |-> d.deleted] : d \in docs}])}

rename_dungeon(S, u, dungeon, new_name) ==
    LET op == "dungeon.rename"
        olds == {d \in Docs(S.dungeons) : d.name = dungeon /\ d.user_id = u /\ ~d.deleted}
        conflict == \E d \in Docs(S.dungeons) : d.name = new_name /\ d.user_id = u /\ ~d.deleted
        InScope(doc) == doc.dungeon = dungeon /\ doc.user_id = u
        CascadeField == "dungeon"
        Renamed(old) ==
            LET new == [old EXCEPT !.name = new_name, !.updated_at = UtcNow]
                S1 == [S EXCEPT !.dungeons = ReplaceOneDoc(@, old, new)]
            IN  UNION {
                  IF ~r.ok
                  THEN {Outcome([S1 EXCEPT !.rooms = r.B], Raised(op, "DuplicateKeyError"))}
                  ELSE {IF i.ok
                        THEN Outcome([S1 EXCEPT !.rooms = r.B, !.items = i.B],
                                     [Ok(op, "RENAMED", TRUE) EXCEPT !.name = new_name])
                        ELSE Outcome([S1 EXCEPT !.rooms = r.B, !.items = i.B],
                                     Raised(op, "DuplicateKeyError"))
                        : i \in update_many(S1.items, {x \in Docs(S1.items) : InScope(x)}, CascadeField, new_name, "items")}
                  : r \in update_many(S1.rooms, {x \in Docs(S1.rooms) : InScope(x)}, CascadeField, new_name, "rooms")}
    IN  IF ~Truthy(u) THEN {Outcome(S, Error(op, "ERROR_VALIDATION"))}
        ELSE IF olds = {} THEN {Outcome(S, Error(op, "ERROR_NOT_FOUND"))}
        ELSE IF conflict THEN {Outcome(S, Error(op, "ERROR_CONFLICT"))}
        ELSE UNION {Renamed(old) : old \in olds}

\* patch is a dict: a function from some of the keys "name", "summary".
update_dungeon(S, u, dungeon, patch) ==
    LET op == "dungeon.update"
        docs == {d \in Docs(S.dungeons) : d.name = dungeon /\ d.user_id = u /\ ~d.deleted}
        renames == "name" \in DOMAIN patch /\ patch["name"] # dungeon
        new_name == patch["name"]
        conflict == \E d \in Docs(S.dungeons) : d.name = new_name /\ d.user_id = u /\ ~d.deleted
        InScope(doc) == doc.dungeon = dungeon /\ doc.user_id = u
        CascadeField == "dungeon"
        \* coll.update_one({"_id": doc["_id"]}, {"$set": update_fields})
        SetFields(S1, doc) ==
            LET new == [doc EXCEPT
                          !.updated_at = UtcNow,
                          !.name = IF renames THEN new_name ELSE @,
                          !.summary = IF "summary" \in DOMAIN patch THEN patch["summary"] ELSE @]
            IN  IF new # doc /\ DuplicateKey(DeleteOneDoc(S1.dungeons, doc), new, "dungeons")
                THEN Outcome(S1, Raised(op, "DuplicateKeyError"))
                ELSE Outcome([S1 EXCEPT !.dungeons = ReplaceOneDoc(@, doc, new)],
                             [Ok(op, "UPDATED", TRUE) EXCEPT !.name = new.name])
        Patched(doc) ==
            IF ~renames THEN {SetFields(S, doc)}
            ELSE UNION {
                  IF ~r.ok
                  THEN {Outcome([S EXCEPT !.rooms = r.B], Raised(op, "DuplicateKeyError"))}
                  ELSE {IF i.ok
                        THEN SetFields([S EXCEPT !.rooms = r.B, !.items = i.B], doc)
                        ELSE Outcome([S EXCEPT !.rooms = r.B, !.items = i.B],
                                     Raised(op, "DuplicateKeyError"))
                        : i \in update_many(S.items, {x \in Docs(S.items) : InScope(x)}, CascadeField, new_name, "items")}
                  : r \in update_many(S.rooms, {x \in Docs(S.rooms) : InScope(x)}, CascadeField, new_name, "rooms")}
    IN  IF ~Truthy(u) THEN {Outcome(S, Error(op, "ERROR_VALIDATION"))}
        ELSE IF docs = {} THEN {Outcome(S, Error(op, "ERROR_NOT_FOUND"))}
        ELSE IF renames /\ conflict THEN {Outcome(S, Error(op, "ERROR_CONFLICT"))}
        ELSE UNION {Patched(doc) : doc \in docs}

delete_dungeon(S, u, dungeon, token) ==
    LET op == "dungeon.delete"
        \* find_one({"name": dungeon, "user_id": user_id}): no deleted filter
        docs == {d \in Docs(S.dungeons) : d.name = dungeon /\ d.user_id = u}
        expected == "DELETE:" \o DungeonPath(dungeon)
        InScope(doc) == doc.dungeon = dungeon /\ doc.user_id = u
    IN  IF ~Truthy(u) THEN {Outcome(S, Error(op, "ERROR_VALIDATION"))}
        ELSE IF docs = {} THEN {Outcome(S, Error(op, "ERROR_NOT_FOUND"))}
        ELSE IF ~TokenMatches(token, expected)
        THEN {Outcome(S, [Error(op, "ERROR_UNSAFE") EXCEPT !.token_hint = expected])}
        ELSE {Outcome(Store(DeleteOneDoc(S.dungeons, doc),
                            DeleteManyDocs(S.rooms, {x \in Docs(S.rooms) : InScope(x)}),
                            DeleteManyDocs(S.items, {x \in Docs(S.items) : InScope(x)})),
                      Ok(op, "DELETED_HARD", TRUE)) : doc \in docs}

\* ----------------------------------------------------------------- rooms
\* A lookup that leaves the owner out of its filter.
DungeonOfAnyOwner(S, u, dungeon) ==
    \E d \in Docs(S.dungeons) : d.name = dungeon /\ ~d.deleted

DungeonExists(S, u, dungeon) ==
    \E d \in Docs(S.dungeons) : d.name = dungeon /\ d.user_id = u /\ ~d.deleted

RoomExists(S, u, dungeon, room) ==
    \E r \in Docs(S.rooms) :
        r.dungeon = dungeon /\ r.name = room /\ r.user_id = u /\ ~r.deleted

create_room(S, u, dungeon, name, summary, exists_ok) ==
    LET op == "room.create"
        doc == RoomDoc(u, dungeon, name, summary, FALSE, UtcNow)
    IN  IF ~Truthy(u) THEN {Outcome(S, Error(op, "ERROR_VALIDATION"))}
        ELSE IF ~DungeonExists(S, u, dungeon) THEN {Outcome(S, Error(op, "ERROR_NOT_FOUND"))}
        ELSE IF ~DuplicateKey(S.rooms, doc, "rooms")
        THEN {Outcome([S EXCEPT !.rooms = InsertDoc(@, doc)], Ok(op, "CREATED", TRUE))}
        ELSE IF ~exists_ok THEN {Outcome(S, Error(op, "ERROR_CONFLICT"))}
        ELSE {Outcome(S, Ok(op, "NOOP", FALSE))}

list_rooms(S, u, dungeon) ==
    LET op == "room.list"
        docs == {r \in Docs(S.rooms) : r.dungeon = dungeon /\ r.user_id = u /\ ~r.deleted}
    IN  IF ~Truthy(u) THEN {Outcome(S, Error(op, "ERROR_VALIDATION"))}
        ELSE IF ~DungeonExists(S, u, dungeon) THEN {Outcome(S, Error(op, "ERROR_NOT_FOUND"))}
        ELSE {Outcome(S, [Ok(op, "LIST", FALSE) EXCEPT !.out =
                {[name |-> r.name, dungeon |-> r.dungeon, summary |-> r.summary,
                  deleted |-> r.deleted] : r \in docs}])}

rename_room(S, u, dungeon, room, new_name) ==
    LET op == "room.rename"
        olds == {r \in Docs(S.rooms) :
                    r.dungeon = dungeon /\ r.name = room /\ r.user_id = u /\ ~r.deleted}
        InScope(doc) == doc.dungeon = dungeon /\ doc.room = room /\ doc.user_id = u
        CascadeField == "room"
        Renamed(old) ==
            LET new == [old EXCEPT !.name = new_name, !.updated_at = UtcNow]
                S1 == [S EXCEPT !.rooms = ReplaceOneDoc(@, old, new)]
            IN  {IF i.ok
                 THEN Outcome([S1 EXCEPT !.items = i.B],
                              [Ok(op, "RENAMED", TRUE) EXCEPT !.name = new_name])
                 ELSE Outcome([S1 EXCEPT !.items = i.B], Raised(op, "DuplicateKeyError"))
                 : i \in update_many(S1.items, {x \in Docs(S1.items) : InScope(x)}, CascadeField, new_name, "items")}
    IN  IF ~Truthy(u) THEN {Outcome(S, Error(op, "ERROR_VALIDATION"))}
        ELSE IF ~DungeonExists(S, u, dungeon) THEN {Outcome(S, Error(op, "ERROR_NOT_FOUND"))}
        ELSE IF olds = {} THEN {Outcome(S, Error(op, "ERROR_NOT_FOUND"))}
        ELSE IF RoomExists(S, u, dungeon, new_name) THEN {Outcome(S, Error(op, "ERROR_CONFLICT"))}
        ELSE UNION {Renamed(old) : old \in olds}

update_room(S, u, dungeon, room, patch) ==
    LET op == "room.update"
        docs == {r \in Docs(S.rooms) :
                    r.dungeon = dungeon /\ r.name = room /\ r.user_id = u /\ ~r.deleted}
        renames == "name" \in DOMAIN patch /\ patch["name"] # room
        new_name == patch["name"]
        InScope(doc) == doc.dungeon = dungeon /\ doc.room = room /\ doc.user_id = u
        CascadeField == "room"
        SetFields(S1, doc) ==
            LET new == [doc EXCEPT
                          !.updated_at = UtcNow,
                          !.name = IF renames THEN new_name ELSE @,
                          !.summary = IF "summary" \in DOMAIN patch THEN patch["summary"] ELSE @]
            IN  IF new # doc /\ DuplicateKey(DeleteOneDoc(S1.rooms, doc), new, "rooms")
                THEN Outcome(S1, Raised(op, "DuplicateKeyError"))
                ELSE Outcome([S1 EXCEPT !.rooms = ReplaceOneDoc(@, doc, new)],
                             [Ok(op, "UPDATED", TRUE) EXCEPT !.name = new.name])
        Patched(doc) ==
            IF ~renames THEN {SetFields(S, doc)}
            ELSE {IF i.ok
                  THEN SetFields([S EXCEPT !.items = i.B], doc)
                  ELSE Outcome([S EXCEPT !.items = i.B], Raised(op, "DuplicateKeyError"))
                  : i \in update_many(S.items, {x \in Docs(S.items) : InScope(x)}, CascadeField, new_name, "items")}
    IN  IF ~Truthy(u) THEN {Outcome(S, Error(op, "ERROR_VALIDATION"))}
        ELSE IF docs = {} THEN {Outcome(S, Error(op, "ERROR_NOT_FOUND"))}
        ELSE IF renames /\ RoomExists(S, u, dungeon, new_name)
        THEN {Outcome(S, Error(op, "ERROR_CONFLICT"))}
        ELSE UNION {Patched(doc) : doc \in docs}

delete_room(S, u, dungeon, room, token) ==
    LET op == "room.delete"
        \* find_one without a deleted filter
        docs == {r \in Docs(S.rooms) : r.dungeon = dungeon /\ r.name = room /\ r.user_id = u}
        expected == "DELETE:" \o RoomPath(dungeon, room)
        InScope(doc) == doc.dungeon = dungeon /\ doc.room = room /\ doc.user_id = u
    IN  IF ~Truthy(u) THEN {Outcome(S, Error(op, "ERROR_VALIDATION"))}
        ELSE IF docs = {} THEN {Outcome(S, Error(op, "ERROR_NOT_FOUND"))}
        ELSE IF ~TokenMatches(token, expected)
        THEN {Outcome(S, [Error(op, "ERROR_UNSAFE") EXCEPT !.token_hint = expected])}
        ELSE {Outcome(Store(S.dungeons, DeleteOneDoc(S.rooms, doc),
                            DeleteManyDocs(S.items, {x \in Docs(S.items) : InScope(x)})),
                      Ok(op, "DELETED_HARD", TRUE)) : doc \in docs}

\* ----------------------------------------------------------------- items
\* A dict as a function; {} is the function with the empty domain.
EmptyDict == [k \in {} |-> None]

\* dict.update: keys of b overwrite, other keys of a stay.
DictUpdate(a, b) ==
    [k \in DOMAIN a \cup DOMAIN b |-> IF k \in DOMAIN b THEN b[k] ELSE a[k]]

ItemsAt(S, u, dungeon, room, category, name) ==
    {i \in Docs(S.items) :
        /\ i.dungeon = dungeon /\ i.room = room /\ i.category = category
        /\ i.name = name /\ i.user_id = u}

\* payload: [name, summary, notes_md, tags, metadata]; an absent key is the
\* default payload.get gives it.
create_item(S, u, dungeon, room, category, payload, exists_ok) ==
    LET op == "item.create"
        name == payload.name
        doc == ItemDoc(u, dungeon, room, category, name, payload.summary,
                       payload.notes_md, payload.tags, payload.metadata, FALSE, UtcNow)
        \* update_one({..., "deleted": False}, {"$set": every field of doc but
        \* created_at})
        Upsert(old) == [doc EXCEPT !.created_at = old.created_at]
        existing == {i \in ItemsAt(S, u, dungeon, room, category, name) : ~i.deleted}
    IN  IF ~Truthy(u) THEN {Outcome(S, Error(op, "ERROR_VALIDATION"))}
        ELSE IF category \notin CATEGORIES THEN {Outcome(S, Error(op, "ERROR_VALIDATION"))}
        ELSE IF ~RoomExists(S, u, dungeon, room) THEN {Outcome(S, Error(op, "ERROR_NOT_FOUND"))}
        ELSE IF ~Truthy(name) THEN {Outcome(S, Error(op, "ERROR_VALIDATION"))}
        ELSE IF ~DuplicateKey(S.items, doc, "items")
        THEN {Outcome([S EXCEPT !.items = InsertDoc(@, doc)],
                      [Ok(op, "CREATED", TRUE) EXCEPT !.name = name])}
        ELSE IF ~exists_ok THEN {Outcome(S, Error(op, "ERROR_CONFLICT"))}
        ELSE {Outcome([S EXCEPT !.items = ReplaceOneDoc(@, old, Upsert(old))],
                      [Ok(op, "NOOP", FALSE) EXCEPT !.name = name]) : old \in existing}

ItemFields(doc) ==
    [name |-> doc.name, summary |-> doc.summary, notes_md |-> doc.notes_md,
     tags |-> doc.tags, metadata |-> doc.metadata]

read_item(S, u, dungeon, room, category, item) ==
    LET op == "item.read"
        docs == {i \in ItemsAt(S, u, dungeon, room, category, item) : ~i.deleted}
    IN  IF ~Truthy(u) THEN {Outcome(S, Error(op, "ERROR_VALIDATION"))}
        ELSE IF docs = {} THEN {Outcome(S, Error(op, "ERROR_NOT_FOUND"))}
        ELSE {IF HasTimestamp(doc.created_at) /\ HasTimestamp(doc.updated_at)
              THEN Outcome(S, [Ok(op, "READ", FALSE) EXCEPT
                                  !.name = doc.name, !.out = {ItemFields(doc)}])
              ELSE Outcome(S, Raised(op, "AttributeError")) : doc \in docs}

\* patch: a function from some of the keys name, summary, notes_md, tags,
\* metadata (metadata a dict).
update_item(S, u, dungeon, room, category, item, patch) ==
    LET op == "item.update"
        docs == {i \in ItemsAt(S, u, dungeon, room, category, item) : ~i.deleted}
        renames == "name" \in DOMAIN patch /\ patch["name"] # item
        new_name == patch["name"]
        conflict == \E i \in ItemsAt(S, u, dungeon, room, category, new_name) : ~i.deleted
        Patched(doc) ==
            LET new == [doc EXCEPT
                          !.updated_at = UtcNow,
                          !.name = IF renames THEN new_name ELSE @,
                          !.summary = IF "summary" \in DOMAIN patch THEN patch["summary"] ELSE @,
                          !.notes_md = IF "notes_md" \in DOMAIN patch THEN patch["notes_md"] ELSE @,
                          !.tags = IF "tags" \in DOMAIN patch THEN patch["tags"] ELSE @,
                          !.metadata = IF "metadata" \in DOMAIN patch
                                       THEN DictUpdate(@, patch["metadata"]) ELSE @]
            IN  Outcome([S EXCEPT !.items = ReplaceOneDoc(@, doc, new)],
                        [Ok(op, "UPDATED", TRUE) EXCEPT !.name = new.name, !.out = {ItemFields(new)}])
    IN  IF ~Truthy(u) THEN {Outcome(S, Error(op, "ERROR_VALIDATION"))}
        ELSE IF docs = {} THEN {Outcome(S, Error(op, "ERROR_NOT_FOUND"))}
        ELSE IF renames /\ conflict THEN {Outcome(S, Error(op, "ERROR_CONFLICT"))}
        ELSE {Patched(doc) : doc \in docs}

rename_item(S, u, dungeon, room, category, item, new_name) ==
    update_item(S, u, dungeon, room, category, item, [name |-> new_name])

delete_item(S, u, dungeon, room, category, item, token) ==
    LET op == "item.delete"
        \* find_one without a deleted filter
        docs == ItemsAt(S, u, dungeon, room, category, item)
        expected == "DELETE:" \o ItemPath(dungeon, room, category, item)
    IN  IF ~Truthy(u) THEN {Outcome(S, Error(op, "ERROR_VALIDATION"))}
        ELSE IF docs = {} THEN {Outcome(S, Error(op, "ERROR_NOT_FOUND"))}
        ELSE IF ~TokenMatches(token, expected)
        THEN {Outcome(S, [Error(op, "ERROR_UNSAFE") EXCEPT !.token_hint = expected])}
        ELSE {Outcome([S EXCEPT !.items = DeleteOneDoc(@, doc)],
                      Ok(op, "DELETED_HARD", TRUE)) : doc \in docs}

\* src, dst: [dungeon, room, category].
copy_item(S, u, src, item, dst, new_name, overwrite) ==
    LET op == "item.copy"
        Copied(src_data) ==
            LET name == IF Truthy(new_name) THEN new_name ELSE src_data.name
                conflict == \E i \in ItemsAt(S, u, dst.dungeon, dst.room, dst.category, name) :
                                ~i.deleted
                payload == [src_data EXCEPT !.name = name]
            IN  IF ~overwrite /\ conflict THEN {Outcome(S, Error(op, "ERROR_CONFLICT"))}
                \* create_result is not inspected
                ELSE {Outcome(c.S, [Ok(op, "COPIED", TRUE) EXCEPT !.name = name]) :
                        c \in create_item(S, u, dst.dungeon, dst.room, dst.category,
                                          payload, overwrite)}
    IN  IF ~Truthy(u) THEN {Outcome(S, Error(op, "ERROR_VALIDATION"))}
        ELSE UNION {
              IF r.res.status = "raised" THEN {Outcome(r.S, Raised(op, r.res.code))}
              ELSE IF r.res.status # "ok" THEN {Outcome(S, Error(op, "ERROR_NOT_FOUND"))}
              ELSE UNION {Copied(src_data) : src_data \in r.res.out}
              : r \in read_item(S, u, src.dungeon, src.room, src.category, item)}

move_item(S, u, src, item, dst, overwrite) ==
    LET op == "item.move"
        Moved(src_data) ==
            LET name == src_data.name
                conflict == \E i \in ItemsAt(S, u, dst.dungeon, dst.room, dst.category, name) :
                                ~i.deleted
            IN  IF ~overwrite /\ conflict THEN {Outcome(S, Error(op, "ERROR_CONFLICT"))}
                ELSE UNION {
                      IF c.res.status = "raised" THEN {Outcome(c.S, Raised(op, c.res.code))}
                      ELSE IF c.res.status # "ok" THEN {Outcome(c.S, [c.res EXCEPT !.op = op])}
                      \* delete_result is not inspected
                      ELSE {Outcome(d.S, [Ok(op, "MOVED", TRUE) EXCEPT !.name = name]) :
                              d \in delete_item(c.S, u, src.dungeon, src.room, src.category, item,
                                                "DELETE:" \o ItemPath(src.dungeon, src.room,
                                                                       src.category, item))}
                      : c \in copy_item(S, u, src, item, dst, None, overwrite)}
    IN  IF ~Truthy(u) THEN {Outcome(S, Error(op, "ERROR_VALIDATION"))}
        ELSE UNION {
              IF r.res.status = "raised" THEN {Outcome(r.S, Raised(op, r.res.code))}
              ELSE IF r.res.status # "ok" THEN {Outcome(S, Error(op, "ERROR_NOT_FOUND"))}
              ELSE UNION {Moved(src_data) : src_data \in r.res.out}
              : r \in read_item(S, u, src.dungeon, src.room, src.category, item)}

\* ------------------------------------------------------------ categories
list_category_items(S, u, dungeon, room, category) ==
    LET op == "category.list"
        docs == {i \in Docs(S.items) :
                    /\ i.dungeon = dungeon /\ i.room = room /\ i.category = category
                    /\ i.user_id = u /\ ~i.deleted}
    IN  IF ~Truthy(u) THEN {Outcome(S, Error(op, "ERROR_VALIDATION"))}
        ELSE IF category \notin CATEGORIES THEN {Outcome(S, Error(op, "ERROR_VALIDATION"))}
        ELSE IF ~RoomExists(S, u, dungeon, room) THEN {Outcome(S, Error(op, "ERROR_NOT_FOUND"))}
        ELSE {Outcome(S, [Ok(op, "LIST", FALSE) EXCEPT !.name = category, !.out =
                {[name |-> i.name, dungeon |-> i.dungeon, room |-> i.room,
                  category |-> i.category, deleted |-> FALSE] : i \in docs}])}

\* ensure_category: the category is validated before the owner.
ensure_category(S, u, dungeon, room, category) ==
    LET op == "category.ensure"
    IN  IF category \notin CATEGORIES THEN {Outcome(S, Error(op, "ERROR_VALIDATION"))}
        ELSE IF ~Truthy(u) THEN {Outcome(S, Error(op, "ERROR_VALIDATION"))}
        ELSE IF ~RoomExists(S, u, dungeon, room) THEN {Outcome(S, Error(op, "ERROR_NOT_FOUND"))}
        ELSE {Outcome(S, [Ok(op, "NOOP", FALSE) EXCEPT !.name = category])}

\* stat of a dungeon, room, category or item path (room, category, item
\* are None when absent).
stat(S, u, dungeon, room, category, item) ==
    LET op == "stat"
        item_docs == {i \in Docs(S.items) :
                        /\ i.dungeon = dungeon /\ i.room = room /\ i.category = category
                        /\ i.name = item /\ i.user_id = u /\ ~i.deleted}
    IN  IF ~Truthy(u) THEN {Outcome(S, Error(op, "ERROR_VALIDATION"))}
        ELSE IF ~DungeonExists(S, u, dungeon) THEN {Outcome(S, Error(op, "ERROR_NOT_FOUND"))}
        ELSE IF room = None THEN {Outcome(S, [Ok(op, "STAT", FALSE) EXCEPT !.name = dungeon])}
        ELSE IF ~RoomExists(S, u, dungeon, room) THEN {Outcome(S, Error(op, "ERROR_NOT_FOUND"))}
        ELSE IF category = None THEN {Outcome(S, [Ok(op, "STAT", FALSE) EXCEPT !.name = room])}
        ELSE IF item = None THEN {Outcome(S, [Ok(op, "STAT", FALSE) EXCEPT !.name = category])}
        ELSE IF item_docs = {} THEN {Outcome(S, Error(op, "ERROR_NOT_FOUND"))}
        ELSE {Outcome(S, [Ok(op, "STAT", FALSE) EXCEPT !.name = item])}

\* ------------------------------------------------------------- utilities
UpperCase == "ABCDEFGHIJKLMNOPQRSTUVWXYZ"

LowerCase == "abcdefghijklmnopqrstuvwxyz"

\* A comparison that keeps the case.
LowerCharKept(c) == c

\* str.lower() of a one-character string.
LowerChar(c) ==
    IF \E k \in 1..Len(UpperCase) : SubSeq(UpperCase, k, k) = c
    THEN LET k == CHOOSE j \in 1..Len(UpperCase) : SubSeq(UpperCase, j, j) = c
         IN  SubSeq(LowerCase, k, k)
    ELSE c

RECURSIVE Lower(_)
\* str.lower()
Lower(str) ==
    IF str = "" THEN ""
    ELSE LowerChar(SubSeq(str, 1, 1)) \o Lower(SubSeq(str, 2, Len(str)))

\* ``q in str``
Contains(q, str) ==
    \E k \in 1..(Len(str) + 1) :
        /\ k + Len(q) - 1 <= Len(str)
        /\ SubSeq(str, k, k + Len(q) - 1) = q

\* The elements of a list.
Elements(seq) == {seq[k] : k \in 1..Len(seq)}

\* dungeon: a name or None; tags_any: a list or None.
search(S, u, query, dungeon, tags_any) ==
    LET op == "search"
        q == Lower(query)
        all_items == {i \in Docs(S.items) :
                        /\ ~i.deleted /\ i.user_id = u
                        /\ (Truthy(dungeon) => i.dungeon = dungeon)}
        name_match(i) == Contains(q, Lower(i.name))
        summary_match(i) == Truthy(i.summary) /\ Contains(q, Lower(i.summary))
        tag_match(i) ==
            (tags_any # None /\ tags_any # <<>>) =>
                Elements(tags_any) \cap Elements(i.tags) # {}
        results == {i \in all_items : (name_match(i) \/ summary_match(i)) /\ tag_match(i)}
    IN  IF ~Truthy(u) THEN {Outcome(S, Error(op, "ERROR_VALIDATION"))}
        ELSE {Outcome(S, [Ok(op, "LIST", FALSE) EXCEPT !.out =
                {[name |-> i.name, dungeon |-> i.dungeon, room |-> i.room,
                  category |-> i.category, deleted |-> FALSE] : i \in results}])}

\* room, category: a name or None.
list_children(S, u, dungeon, room, category) ==
    LET op == "list"
    IN  IF ~Truthy(u) THEN {Outcome(S, Error(op, "ERROR_VALIDATION"))}
        ELSE IF ~DungeonExists(S, u, dungeon) THEN {Outcome(S, Error(op, "ERROR_NOT_FOUND"))}
        ELSE IF room = None
        THEN {Outcome(S, [o.res EXCEPT !.op = op]) : o \in list_rooms(S, u, dungeon)}
        ELSE IF category = None
        THEN {Outcome(S, [Ok(op, "LIST", FALSE) EXCEPT !.name = room, !.out =
                {[name |-> c, dungeon |-> dungeon, room |-> room] : c \in CATEGORIES}])}
        ELSE {Outcome(S, [o.res EXCEPT !.op = op]) :
                o \in list_category_items(S, u, dungeon, room, category)}

\* The sequences that list every element of a set once: the orders in which
\* a find without a sort may return it.
Orderings(set) ==
    {seq \in [1..Cardinality(set) -> set] :
        \A j, k \in 1..Cardinality(set) : seq[j] = seq[k] => j = k}

\* A tree (the export/import payload) is
\*   [name, created_at, deleted, rooms], rooms a list of
\*   [name, summary, created_at, deleted, items], items a list of
\*   [category, name, summary, notes_md, tags, metadata, created_at, deleted]:
\* the nested dicts in their iteration order.  created_at is "num" (an epoch
\* number) or None.
export_dungeon(S, u, dungeon) ==
    LET op == "export"
        dungeon_docs == {d \in Docs(S.dungeons) : d.name = dungeon /\ d.user_id = u /\ ~d.deleted}
        room_docs == {r \in Docs(S.rooms) : r.dungeon = dungeon /\ r.user_id = u /\ ~r.deleted}
        item_docs == {i \in Docs(S.items) : i.dungeon = dungeon /\ i.user_id = u /\ ~i.deleted}
        Stamped(doc) == HasTimestamp(doc.created_at) /\ HasTimestamp(doc.updated_at)
        \* items of a room no exported room holds are skipped
        placed == {i \in item_docs : \E r \in room_docs : r.name = i.room}
        ItemEntry(i) ==
            [category |-> i.category, name |-> i.name, summary |-> i.summary,
             notes_md |-> i.notes_md, tags |-> i.tags, metadata |-> i.metadata,
             created_at |-> "num", deleted |-> i.deleted]
        RoomEntry(r, itemseq) ==
            [name |-> r.name, summary |-> r.summary, created_at |-> "num",
             deleted |-> r.deleted, items |-> itemseq]
        ItemLists(r) ==
            {[k \in 1..Len(seq) |-> ItemEntry(seq[k])] :
                seq \in Orderings({i \in placed : i.room = r.name})}
        RoomLists ==
            UNION {{rs \in [1..Len(seq) -> UNION {{RoomEntry(r, il) : il \in ItemLists(r)} : r \in room_docs}] :
                      \A k \in 1..Len(seq) : rs[k].name = seq[k].name}
                   : seq \in Orderings(room_docs)}
        Tree(d, rs) ==
            [name |-> d.name, created_at |-> "num", deleted |-> d.deleted, rooms |-> rs]
    IN  IF ~Truthy(u) THEN {Outcome(S, Error(op, "ERROR_VALIDATION"))}
        ELSE IF dungeon_docs = {} THEN {Outcome(S, Error(op, "ERROR_NOT_FOUND"))}
        ELSE IF \E d \in dungeon_docs : ~Stamped(d) THEN {Outcome(S, Raised(op, "AttributeError"))}
        ELSE IF \E r \in room_docs : ~Stamped(r) THEN {Outcome(S, Raised(op, "AttributeError"))}
        ELSE IF \E i \in placed : ~Stamped(i) THEN {Outcome(S, Raised(op, "AttributeError"))}
        \* export_data["rooms"][room]["categories"][category] of another category
        ELSE IF \E i \in placed : i.category \notin CATEGORIES THEN {Outcome(S, Raised(op, "KeyError"))}
        ELSE {Outcome(S, [Ok(op, "EXPORTED", FALSE) EXCEPT !.name = dungeon, !.out = {Tree(d, rs)}]) :
                d \in dungeon_docs, rs \in RoomLists}

\* datetime.fromtimestamp(x) if x is a number, else utcnow().
ImportedAt(created_at) == IF created_at = "num" THEN FromTimestamp ELSE UtcNow

\* The documents import_dungeon inserts, in order: each room followed by its
\* items.
ImportDocs(u, name, data) ==
    LET RoomInserts(r) ==
            <<[coll |-> "rooms",
               doc |-> RoomDoc(u, name, r.name, r.summary, r.deleted, ImportedAt(r.created_at))]>>
            \o [k \in 1..Len(r.items) |->
                 [coll |-> "items",
                  doc |-> ItemDoc(u, name, r.name, r.items[k].category, r.items[k].name,
                                  r.items[k].summary, r.items[k].notes_md, r.items[k].tags,
                                  r.items[k].metadata, r.items[k].deleted,
                                  ImportedAt(r.items[k].created_at))]]
        RECURSIVE Walk(_)
        Walk(k) == IF k > Len(data.rooms) THEN <<>>
                   ELSE RoomInserts(data.rooms[k]) \o Walk(k + 1)
    IN  Walk(1)

RECURSIVE InsertAll(_, _, _)
\* insert_one of each document in turn; the first DuplicateKeyError ends it.
InsertAll(S, inserts, k) ==
    IF k > Len(inserts) THEN [S |-> S, ok |-> TRUE]
    ELSE LET ins == inserts[k]
         IN  IF ins.coll = "rooms"
             THEN IF DuplicateKey(S.rooms, ins.doc, "rooms") THEN [S |-> S, ok |-> FALSE]
                  ELSE InsertAll([S EXCEPT !.rooms = InsertDoc(@, ins.doc)], inserts, k + 1)
             ELSE IF DuplicateKey(S.items, ins.doc, "items") THEN [S |-> S, ok |-> FALSE]
                  ELSE InsertAll([S EXCEPT !.items = InsertDoc(@, ins.doc)], inserts, k + 1)

RECURSIVE FreeName(_, _, _, _)
\* The first of name-i, name-(i+1), ... no live dungeon of the owner holds.
FreeName(S, u, name, i) ==
    LET new == name \o "-" \o ToString(i)
    IN  IF DungeonExists(S, u, new) THEN FreeName(S, u, name, i + 1) ELSE new

import_dungeon(S, u, data, strategy) ==
    LET op == "import"
        existing == {d \in Docs(S.dungeons) :
                        d.name = data.name /\ d.user_id = u /\ ~d.deleted}
        InScope(doc) == doc.dungeon = data.name /\ doc.user_id = u
        Recreate(S1, name) ==
            LET dungeon_doc == DungeonDoc(u, name, None, data.deleted, ImportedAt(data.created_at))
                S2 == [S1 EXCEPT !.dungeons = InsertDoc(@, dungeon_doc)]
                done == InsertAll(S2, ImportDocs(u, name, data), 1)
            IN  IF DuplicateKey(S1.dungeons, dungeon_doc, "dungeons")
                THEN Outcome(S1, Raised(op, "DuplicateKeyError"))
                ELSE IF ~done.ok THEN Outcome(done.S, Raised(op, "DuplicateKeyError"))
                ELSE Outcome(done.S, [Ok(op, "IMPORTED", TRUE) EXCEPT !.name = name])
    IN  IF ~Truthy(u) THEN {Outcome(S, Error(op, "ERROR_VALIDATION"))}
        ELSE IF ~Truthy(data.name) THEN {Outcome(S, Error(op, "ERROR_VALIDATION"))}
        ELSE IF existing = {} THEN {Recreate(S, data.name)}
        ELSE IF strategy = "overwrite"
        THEN {Recreate(Store(DeleteOneDoc(S.dungeons, d),
                             DeleteManyDocs(S.rooms, {x \in Docs(S.rooms) : InScope(x)}),
                             DeleteManyDocs(S.items, {x \in Docs(S.items) : InScope(x)})), data.name) : d \in existing}
        ELSE IF strategy = "rename"
        THEN {Recreate(S, FreeName(S, u, data.name, 2))}
        ELSE {Outcome(S, [Ok(op, "NOOP", FALSE) EXCEPT !.name = data.name])}

\* ---------------------------------------------------------------- inputs
\* The calls a caller makes address the nodes the store holds (of any owner,
\* deleted or not) and a few fixed names, held or not.
TheStore == Store(dungeons, rooms, items)

DungeonNames == {"A", "B"}

RoomNames == {"R", "S"}

ItemNames == {"Axe", "Bat"}

CategoryInputs == {"traps", "junk"}

Summaries == {None, "a Bat"}

DungeonTargets == DungeonNames \cup {d.name : d \in Docs(dungeons)}

RoomTargets ==
    {[dungeon |-> "A", room |-> "R"]}
    \cup {[dungeon |-> r.dungeon, room |-> r.name] : r \in Docs(rooms)}

CategoryTargets ==
    {[dungeon |-> t.dungeon, room |-> t.room, category |-> c] :
        t \in RoomTargets, c \in CategoryInputs}
    \cup {[dungeon |-> i.dungeon, room |-> i.room, category |-> i.category] : i \in Docs(items)}

ItemTargets ==
    {[dungeon |-> "A", room |-> "R", category |-> "traps", name |-> "Axe"]}
    \cup {[dungeon |-> i.dungeon, room |-> i.room, category |-> i.category, name |-> i.name] :
            i \in Docs(items)}

Tokens(path) == {None, "DELETE:" \o path, "DELETE:"}

Payloads ==
    {[name |-> "Axe", summary |-> "a Bat", notes_md |-> "sharp",
      tags |-> <<"poison", "dc15">>, metadata |-> [dc |-> "15"]],
     [name |-> "Axe", summary |-> None, notes_md |-> None,
      tags |-> <<>>, metadata |-> [cr |-> "2"]],
     [name |-> "Bat", summary |-> "an AXE", notes_md |-> None,
      tags |-> <<"undead">>, metadata |-> EmptyDict],
     [name |-> None, summary |-> None, notes_md |-> None,
      tags |-> <<>>, metadata |-> EmptyDict]}

NodePatches(names) ==
    {[name |-> n] : n \in names}
    \cup {[name |-> n, summary |-> "new"] : n \in names}
    \cup {[summary |-> "new"], EmptyDict}

ItemPatches ==
    {[name |-> n] : n \in ItemNames}
    \cup {[summary |-> "new", notes_md |-> "new", tags |-> <<"undead">>],
          [metadata |-> [dc |-> "20", hp |-> "7"]],
          EmptyDict}

\* A tree of one room holding one item Axe.
TreeOf(name, room, ddel, rdel, idel, category) ==
    [name |-> name, created_at |-> "num", deleted |-> ddel,
     rooms |-> <<[name |-> room, summary |-> "a Bat", created_at |-> "num", deleted |-> rdel,
                  items |-> <<[category |-> category, name |-> "Axe", summary |-> "a Bat",
                               notes_md |-> "sharp", tags |-> <<"poison", "dc15">>,
                               metadata |-> [dc |-> "15"], created_at |-> None,
                               deleted |-> idel]>>]>>]

Trees ==
    {TreeOf("A", "R", FALSE, FALSE, FALSE, "traps"),
     TreeOf("B", "S", TRUE, FALSE, FALSE, "traps"),
     TreeOf("A", "R", FALSE, TRUE, FALSE, "traps"),
     TreeOf("A", "R", FALSE, FALSE, TRUE, "traps"),
     TreeOf("A", "R", FALSE, FALSE, FALSE, "junk"),
     [name |-> None, created_at |-> None, deleted |-> FALSE, rooms |-> <<>>]}

Strategies == {"skip", "overwrite", "rename"}

Queries == {"", "axe", "BAT", "z"}

TagFilters == {None, <<>>, <<"undead", "dc15">>}

\* The dungeon argument of search: absent, empty or a name.
SearchScopes == DungeonNames \cup {None, ""}

\* ---------------------------------------------------------------- actions
Idle == MakeResult("idle", "idle", "idle")

\* A caller issues one store call and gets one of its outcomes.
Call(outcomes) ==
    /\ res = Idle
    /\ nops < MaxOps
    /\ \E o \in outcomes :
          /\ dungeons' = o.S.dungeons
          /\ rooms' = o.S.rooms
          /\ items' = o.S.items
          /\ res' = o.res
    /\ nops' = nops + 1
    /\ UNCHANGED calls

CreateDungeon ==
    \E u \in Callers, n \in DungeonNames, s \in Summaries, e \in BOOLEAN :
        Call(create_dungeon(TheStore, u, n, s, e))

ListDungeons ==
    \E u \in Callers : Call(list_dungeons(TheStore, u))

RenameDungeon ==
    \E u \in Callers, d \in DungeonTargets, n \in DungeonNames :
        Call(rename_dungeon(TheStore, u, d, n))

UpdateDungeon ==
    \E u \in Callers, d \in DungeonTargets, p \in NodePatches(DungeonNames) :
        Call(update_dungeon(TheStore, u, d, p))

DeleteDungeon ==
    \E u \in Callers, d \in DungeonTargets :
        \E t \in Tokens(DungeonPath(d)) : Call(delete_dungeon(TheStore, u, d, t))

CreateRoom ==
    \E u \in Callers, d \in DungeonTargets, n \in RoomNames, s \in Summaries, e \in BOOLEAN :
        Call(create_room(TheStore, u, d, n, s, e))

ListRooms ==
    \E u \in Callers, d \in DungeonTargets : Call(list_rooms(TheStore, u, d))

RenameRoom ==
    \E u \in Callers, t \in RoomTargets, n \in RoomNames :
        Call(rename_room(TheStore, u, t.dungeon, t.room, n))

UpdateRoom ==
    \E u \in Callers, t \in RoomTargets, p \in NodePatches(RoomNames) :
        Call(update_room(TheStore, u, t.dungeon, t.room, p))

DeleteRoom ==
    \E u \in Callers, t \in RoomTargets :
        \E k \in Tokens(RoomPath(t.dungeon, t.room)) :
            Call(delete_room(TheStore, u, t.dungeon, t.room, k))

CreateItem ==
    \E u \in Callers, t \in CategoryTargets, p \in Payloads, e \in BOOLEAN :
        Call(create_item(TheStore, u, t.dungeon, t.room, t.category, p, e))

ReadItem ==
    \E u \in Callers, t \in ItemTargets :
        Call(read_item(TheStore, u, t.dungeon, t.room, t.category, t.name))

UpdateItem ==
    \E u \in Callers, t \in ItemTargets, p \in ItemPatches :
        Call(update_item(TheStore, u, t.dungeon, t.room, t.category, t.name, p))

RenameItem ==
    \E u \in Callers, t \in ItemTargets, n \in ItemNames :
        Call(rename_item(TheStore, u, t.dungeon, t.room, t.category, t.name, n))

DeleteItem ==
    \E u \in Callers, t \in ItemTargets :
        \E k \in Tokens(ItemPath(t.dungeon, t.room, t.category, t.name)) :
            Call(delete_item(TheStore, u, t.dungeon, t.room, t.category, t.name, k))

MoveItem ==
    \E u \in Callers, t \in ItemTargets, b \in CategoryTargets, w \in BOOLEAN :
        Call(move_item(TheStore, u, t, t.name, b, w))

CopyItem ==
    \E u \in Callers, t \in ItemTargets, b \in CategoryTargets, n \in {None, "Bat"},
       w \in BOOLEAN :
        Call(copy_item(TheStore, u, t, t.name, b, n, w))

ListCategoryItems ==
    \E u \in Callers, t \in CategoryTargets :
        Call(list_category_items(TheStore, u, t.dungeon, t.room, t.category))

EnsureCategory ==
    \E u \in Callers, t \in CategoryTargets :
        Call(ensure_category(TheStore, u, t.dungeon, t.room, t.category))

Stat ==
    \E u \in Callers, d \in DungeonTargets :
        \/ Call(stat(TheStore, u, d, None, None, None))
        \/ \E r \in RoomNames : Call(stat(TheStore, u, d, r, None, None))
        \/ \E r \in RoomNames, c \in CategoryInputs :
              Call(stat(TheStore, u, d, r, c, None))
        \/ \E r \in RoomNames, c \in CategoryInputs, i \in ItemNames :
              Call(stat(TheStore, u, d, r, c, i))

Search ==
    \E u \in Callers, q \in Queries, d \in SearchScopes, t \in TagFilters :
        Call(search(TheStore, u, q, d, t))

ListChildren ==
    \E u \in Callers, d \in DungeonTargets :
        \/ Call(list_children(TheStore, u, d, None, None))
        \/ \E r \in RoomNames : Call(list_children(TheStore, u, d, r, None))
        \/ \E r \in RoomNames, c \in CategoryInputs : Call(list_children(TheStore, u, d, r, c))

ExportDungeon ==
    \E u \in Callers, d \in DungeonTargets : Call(export_dungeon(TheStore, u, d))

ImportDungeon ==
    \E u \in Callers, t \in Trees, g \in Strategies : Call(import_dungeon(TheStore, u, t, g))

\* The caller takes the returned envelope (or the exception) and is ready
\* for its next call.
Return ==
    /\ res # Idle
    /\ res' = Idle
    /\ UNCHANGED <<dungeons, rooms, items, nops, calls>>

Init ==
    /\ dungeons = EmptyBag
    /\ rooms = EmptyBag
    /\ items = EmptyBag
    /\ res = Idle
    /\ nops = 0
    /\ calls = <<>>

Next ==
    \/ CreateDungeon
    \/ ListDungeons
    \/ RenameDungeon
    \/ UpdateDungeon
    \/ DeleteDungeon
    \/ CreateRoom
    \/ ListRooms
    \/ RenameRoom
    \/ UpdateRoom
    \/ DeleteRoom
    \/ CreateItem
    \/ ReadItem
    \/ UpdateItem
    \/ RenameItem
    \/ DeleteItem
    \/ MoveItem
    \/ CopyItem
    \/ ListCategoryItems
    \/ EnsureCategory
    \/ Stat
    \/ Search
    \/ ListChildren
    \/ ExportDungeon
    \/ ImportDungeon
    \/ Return

Spec == Init /\ [][Next]_vars

\* ---------------------------------------------------------------- manager
\* dungeon_manager: each function calls the store function of the same name
\* and turns its envelope into a plain value or an exception.  A native
\* exception of the store function passes through.
Returned(op, name, out) == [MakeResult(op, "returned", "VALUE") EXCEPT !.name = name, !.out = out]

_extract_result(r) ==
    IF r.status = "error"
    THEN IF r.code = "ERROR_NOT_FOUND" THEN Raised(r.op, "NotFoundError")
         ELSE IF r.code = "ERROR_CONFLICT" THEN Raised(r.op, "ConflictError")
         ELSE IF r.code = "ERROR_UNSAFE" THEN Raised(r.op, "UnsafeOperationError")
         ELSE Raised(r.op, "ValueError")
    ELSE Returned(r.op, r.name, r.out)

\* The conversion written out in delete_dungeon, delete_room, delete_item:
\* it has no ConflictError branch and returns None.
DeleteResult(r) ==
    IF r.status = "error"
    THEN IF r.code = "ERROR_NOT_FOUND" THEN Raised(r.op, "NotFoundError")
         ELSE IF r.code = "ERROR_UNSAFE" THEN Raised(r.op, "UnsafeOperationError")
         ELSE Raised(r.op, "ValueError")
    ELSE Returned(r.op, None, {})

\* result = mf.f(...); data = _extract_result(result); return {...}
Extracted(outcomes) ==
    {Outcome(o.S, IF o.res.status = "raised" THEN o.res ELSE _extract_result(o.res)) :
        o \in outcomes}

Deleted(outcomes) ==
    {Outcome(o.S, IF o.res.status = "raised" THEN o.res ELSE DeleteResult(o.res)) :
        o \in outcomes}

dm_create_dungeon(S, u, name, summary, exists_ok) ==
    Extracted(create_dungeon(S, u, name, summary, exists_ok))

dm_list_dungeons(S, u) == Extracted(list_dungeons(S, u))

dm_rename_dungeon(S, u, dungeon, new_name) == Extracted(rename_dungeon(S, u, dungeon, new_name))

dm_update_dungeon(S, u, dungeon, patch) == Extracted(update_dungeon(S, u, dungeon, patch))

dm_delete_dungeon(S, u, dungeon, confirm_token) ==
    Deleted(delete_dungeon(S, u, dungeon, confirm_token))

dm_create_room(S, u, dungeon, name, exists_ok, summary) ==
    Extracted(create_room(S, u, dungeon, name, summary, exists_ok))

dm_list_rooms(S, u, dungeon) == Extracted(list_rooms(S, u, dungeon))

dm_rename_room(S, u, dungeon, room, new_name) ==
    Extracted(rename_room(S, u, dungeon, room, new_name))

dm_update_room(S, u, dungeon, room, patch) == Extracted(update_room(S, u, dungeon, room, patch))

dm_delete_room(S, u, dungeon, room, confirm_token) ==
    Deleted(delete_room(S, u, dungeon, room, confirm_token))

dm_ensure_category(S, u, dungeon, room, category) ==
    Extracted(ensure_category(S, u, dungeon, room, category))

dm_list_category_items(S, u, dungeon, room, category) ==
    Extracted(list_category_items(S, u, dungeon, room, category))

dm_create_item(S, u, dungeon, room, category, payload, exists_ok) ==
    Extracted(create_item(S, u, dungeon, room, category, payload, exists_ok))

dm_read_item(S, u, dungeon, room, category, item) ==
    Extracted(read_item(S, u, dungeon, room, category, item))

\* update_item does not convert the envelope: it takes
\* result["result"]["item"]["name"] (KeyError when the result map is empty,
\* as it is in every error envelope) and reads the leaf back.
dm_update_item(S, u, dungeon, room, category, item, patch) ==
    UNION {IF o.res.status = "raised" THEN {o}
           ELSE IF o.res.status = "error" THEN {Outcome(o.S, Raised(o.res.op, "KeyError"))}
           ELSE dm_read_item(o.S, u, dungeon, room, category, o.res.name) :
               o \in update_item(S, u, dungeon, room, category, item, patch)}

dm_rename_item(S, u, dungeon, room, category, item, new_name) ==
    dm_update_item(S, u, dungeon, room, category, item, [name |-> new_name])

dm_delete_item(S, u, dungeon, room, category, item, confirm_token) ==
    Deleted(delete_item(S, u, dungeon, room, category, item, confirm_token))

dm_move_item(S, u, src, item, dst, overwrite) ==
    Extracted(move_item(S, u, src, item, dst, overwrite))

dm_copy_item(S, u, src, item, dst, new_name, overwrite) ==
    Extracted(copy_item(S, u, src, item, dst, new_name, overwrite))

dm_stat(S, u, dungeon, room, category, item) == Extracted(stat(S, u, dungeon, room, category, item))

dm_list_children(S, u, dungeon, room, category) ==
    Extracted(list_children(S, u, dungeon, room, category))

dm_search(S, u, query, dungeon, tags_any) == Extracted(search(S, u, query, dungeon, tags_any))

dm_export_dungeon(S, u, dungeon) == Extracted(export_dungeon(S, u, dungeon))

dm_import_dungeon(S, u, data, strategy) == Extracted(import_dungeon(S, u, data, strategy))

\* A caller invokes one manager function.
ManagerCall ==
    \E u \in Callers :
        \/ \E n \in DungeonNames, s \in Summaries, e \in BOOLEAN :
              Call(dm_create_dungeon(TheStore, u, n, s, e))
        \/ Call(dm_list_dungeons(TheStore, u))
        \/ \E d \in DungeonTargets :
              \/ \E n \in DungeonNames : Call(dm_rename_dungeon(TheStore, u, d, n))
              \/ \E p \in NodePatches(DungeonNames) : Call(dm_update_dungeon(TheStore, u, d, p))
              \/ \E k \in Tokens(DungeonPath(d)) : Call(dm_delete_dungeon(TheStore, u, d, k))
              \/ \E n \in RoomNames, s \in Summaries, e \in BOOLEAN :
                    Call(dm_create_room(TheStore, u, d, n, e, s))
              \/ Call(dm_list_rooms(TheStore, u, d))
              \/ Call(dm_export_dungeon(TheStore, u, d))
              \/ \E r \in RoomNames \cup {None}, c \in CategoryInputs \cup {None},
                    i \in ItemNames \cup {None} : Call(dm_stat(TheStore, u, d, r, c, i))
              \/ \E r \in RoomNames \cup {None}, c \in CategoryInputs \cup {None} :
                    Call(dm_list_children(TheStore, u, d, r, c))
        \/ \E t \in RoomTargets :
              \/ \E n \in RoomNames : Call(dm_rename_room(TheStore, u, t.dungeon, t.room, n))
              \/ \E p \in NodePatches(RoomNames) :
                    Call(dm_update_room(TheStore, u, t.dungeon, t.room, p))
              \/ \E k \in Tokens(RoomPath(t.dungeon, t.room)) :
                    Call(dm_delete_room(TheStore, u, t.dungeon, t.room, k))
        \/ \E t \in CategoryTargets :
              \/ \E p \in Payloads, e \in BOOLEAN :
                    Call(dm_create_item(TheStore, u, t.dungeon, t.room, t.category, p, e))
              \/ Call(dm_list_category_items(TheStore, u, t.dungeon, t.room, t.category))
              \/ Call(dm_ensure_category(TheStore, u, t.dungeon, t.room, t.category))
        \/ \E t \in ItemTargets :
              \/ Call(dm_read_item(TheStore, u, t.dungeon, t.room, t.category, t.name))
              \/ \E p \in ItemPatches :
                    Call(dm_update_item(TheStore, u, t.dungeon, t.room, t.category, t.name, p))
              \/ \E n \in ItemNames :
                    Call(dm_rename_item(TheStore, u, t.dungeon, t.room, t.category, t.name, n))
              \/ \E k \in Tokens(ItemPath(t.dungeon, t.room, t.category, t.name)) :
                    Call(dm_delete_item(TheStore, u, t.dungeon, t.room, t.category, t.name, k))
              \/ \E b \in CategoryTargets, w \in BOOLEAN :
                    Call(dm_move_item(TheStore, u, t, t.name, b, w))
              \/ \E b \in CategoryTargets, n \in {None, "Bat"}, w \in BOOLEAN :
                    Call(dm_copy_item(TheStore, u, t, t.name, b, n, w))
        \/ \E q \in Queries, d \in SearchScopes, t \in TagFilters :
              Call(dm_search(TheStore, u, q, d, t))
        \/ \E t \in Trees, g \in Strategies : Call(dm_import_dungeon(TheStore, u, t, g))

ManagerNext == ManagerCall \/ Return

\* The callers use the store through the manager only.
ManagerSpec == Init /\ [][ManagerNext]_vars

\* -------------------------------------------------------------------- DSL
\* dungeon_dsl: a line of text is tokenized and dispatched to a manager
\* function; the manager's value or exception becomes an envelope.
Whitespace == {" ", "\t"}

Quotes == {"\"", "'"}

\* str.strip(chars)
Strip(s, chars) ==
    LET RECURSIVE Left(_)
        Left(t) == IF t # "" /\ SubSeq(t, 1, 1) \in chars
                   THEN Left(SubSeq(t, 2, Len(t))) ELSE t
        RECURSIVE Right(_)
        Right(t) == IF t # "" /\ SubSeq(t, Len(t), Len(t)) \in chars
                    THEN Right(SubSeq(t, 1, Len(t) - 1)) ELSE t
    IN  Right(Left(s))

\* str.split(sep) for a one-character separator; maxsplit = 1 when once.
Split(s, sep, once) ==
    LET RECURSIVE Parts(_, _)
        Parts(t, first) ==
            LET hits == {k \in 1..Len(t) : SubSeq(t, k, k) = sep}
                k == CHOOSE x \in hits : \A y \in hits : x <= y
            IN  IF hits = {} \/ (once /\ ~first) THEN <<t>>
                ELSE <<SubSeq(t, 1, k - 1)>> \o Parts(SubSeq(t, k + 1, Len(t)), FALSE)
    IN  Parts(s, TRUE)

\* str.startswith
StartsWith(s, prefix) == Len(s) >= Len(prefix) /\ SubSeq(s, 1, Len(prefix)) = prefix

tokenize(line) ==
    LET n == Len(line)
        Ch(i) == SubSeq(line, i, i)
        is_quote_at_boundary(i) ==
            /\ Ch(i) \in Quotes
            /\ \/ i = 1
               \/ Ch(i - 1) \in Whitespace
               \/ Ch(i - 1) = "="
               \/ (i < n /\ Ch(i + 1) \in Whitespace)
        RECURSIVE Scan(_, _, _, _, _)
        Scan(i, tokens, current, in_quotes, quote_char) ==
            IF i > n THEN (IF current # "" THEN Append(tokens, current) ELSE tokens)
            ELSE IF is_quote_at_boundary(i) /\ (i = 1 \/ Ch(i - 1) # "\\")
            THEN IF ~in_quotes THEN Scan(i + 1, tokens, current, TRUE, Ch(i))
                 ELSE IF Ch(i) = quote_char THEN Scan(i + 1, tokens, current, FALSE, None)
                 ELSE Scan(i + 1, tokens, current \o Ch(i), in_quotes, quote_char)
            ELSE IF Ch(i) \in Quotes /\ in_quotes
            THEN Scan(i + 1, tokens, current \o Ch(i), in_quotes, quote_char)
            ELSE IF Ch(i) \in Whitespace /\ ~in_quotes
            THEN Scan(i + 1, IF current # "" THEN Append(tokens, current) ELSE tokens, "",
                      in_quotes, quote_char)
            ELSE Scan(i + 1, tokens, current \o Ch(i), in_quotes, quote_char)
        Stripped(kept) == [k \in 1..Len(kept) |-> Strip(kept[k], Quotes)]
    IN  Stripped(SelectSeq(Scan(1, <<>>, "", FALSE, None), LAMBDA t : Strip(t, Whitespace) # ""))

\* parse_value of a text without brackets, braces, quotes or digits (what
\* json.loads rejects): a boolean or None literal, else the text.
parse_value(value) ==
    LET v == Strip(value, Whitespace)
    IN  IF Lower(v) \in {"true", "yes", "on"} THEN TRUE
        ELSE IF Lower(v) \in {"false", "no", "off"} THEN FALSE
        ELSE IF Lower(v) \in {"none", "null"} THEN None
        ELSE v

parse_tags(tags_str) ==
    LET Stripped(kept) == [k \in 1..Len(kept) |-> Strip(kept[k], Whitespace)]
    IN  Stripped(SelectSeq(Split(tags_str, ",", FALSE), LAMBDA t : Strip(t, Whitespace) # ""))

parse_field_args(args) ==
    LET \* one key=value pair of a meta= value
        Pair(kv) ==
            [x \in {Strip(kv[1], Whitespace)} |-> parse_value(Strip(kv[2], Whitespace))]
        RECURSIVE Fill(_, _, _)
        Fill(pairs, k, result) ==
            IF k > Len(pairs) THEN result
            ELSE IF ~Contains("=", pairs[k]) THEN Fill(pairs, k + 1, result)
            ELSE Fill(pairs, k + 1, DictUpdate(result, Pair(Split(pairs[k], "=", TRUE))))
        parse_metadata(meta_str) == Fill(Split(meta_str, ",", FALSE), 1, EmptyDict)
        \* the field a key=value argument sets
        Field(key, value) ==
            IF key = "tags" THEN [tags |-> parse_tags(value)]
            ELSE IF key = "meta" THEN [metadata |-> parse_metadata(value)]
            ELSE IF key \in {"notes", "notes_md"} THEN [notes_md |-> value]
            ELSE IF key = "summary" THEN [summary |-> value]
            ELSE [x \in {key} |-> parse_value(value)]
        Assigned(kv) == Field(Strip(kv[1], Whitespace), Strip(kv[2], Quotes))
        \* a positional argument is the summary, then the notes
        Positional(fields, arg, has_field_assignments) ==
            IF has_field_assignments THEN fields
            ELSE IF "summary" \notin DOMAIN fields THEN DictUpdate(fields, [summary |-> arg])
            ELSE IF "notes_md" \notin DOMAIN fields THEN DictUpdate(fields, [notes_md |-> arg])
            ELSE fields
        RECURSIVE Walk(_, _, _)
        Walk(i, fields, has_field_assignments) ==
            IF i > Len(args) THEN fields
            ELSE IF Contains("=", args[i])
            THEN Walk(i + 1, DictUpdate(fields, Assigned(Split(args[i], "=", TRUE))), TRUE)
            ELSE Walk(i + 1, Positional(fields, args[i], has_field_assignments),
                      has_field_assignments)
    IN  Walk(1, EmptyDict, FALSE)

_map_error_to_code(error) ==
    IF error = "NotFoundError" THEN "ERROR_NOT_FOUND"
    ELSE IF error = "ConflictError" THEN "ERROR_CONFLICT"
    ELSE IF error = "UnsafeOperationError" THEN "ERROR_UNSAFE"
    ELSE IF error = "DSLSyntaxError" THEN "ERROR_PARSE"
    ELSE IF error = "ValueError" THEN "ERROR_VALIDATION"
    ELSE "ERROR_INTERNAL"

\* execute_command returned None.
NoEnvelope == MakeResult("none", "none", "none")

\* The manager functions are called without user_id, which defaults to None.
execute_command(S, line) ==
    LET stripped == Strip(line, Whitespace)
        None_ == {Outcome(S, NoEnvelope)}
        \* the try statement and its except clause, on the tokens of the line
        Dispatch(parts) ==
            LET cmd == Lower(parts[1])
                args == Tail(parts)
                n == Len(args)
                Arg(k) == args[k + 1]
                subcmd == Lower(Arg(0))
                \* word in args[first:]
                Has(word, first) == \E k \in (first + 1)..n : args[k] = word
                exists_ok == Has("exists_ok", 0) \/ Has("--exists-ok", 0)
                \* the value of the last of args[first:] that starts with the prefix
                Given(prefix, first) ==
                    LET at == {k \in (first + 1)..n : StartsWith(args[k], prefix)}
                        last == CHOOSE k \in at : \A j \in at : j <= k
                    IN  IF at = {} THEN None ELSE Split(args[last], "=", TRUE)[2]
                token == IF Given("token=", 0) = None THEN None ELSE Strip(Given("token=", 0), Quotes)
                \* except Exception as e: the error envelope
                Failed(o, exc) == Outcome(o, Error(cmd, _map_error_to_code(exc)))
                \* the ok envelope of a branch, or the error envelope of the exception
                Answer(outcomes, name, code, diff) ==
                    {IF o.res.status = "returned"
                     THEN Outcome(o.S, [Ok(name, code, diff) EXCEPT !.name = o.res.name, !.out = o.res.out])
                     ELSE Failed(o.S, o.res.code) : o \in outcomes}
                src == [dungeon |-> Arg(1), room |-> Arg(2), category |-> Arg(3)]
                dst == [dungeon |-> Arg(5), room |-> Arg(6), category |-> Arg(7)]
                fields == parse_field_args(SubSeq(args, 6, n))
                Payload(name, given) ==
                    [k \in {"name", "summary", "notes_md", "tags", "metadata"} |->
                        IF k = "name" THEN name
                        ELSE IF k \in DOMAIN given THEN given[k]
                        ELSE IF k = "tags" THEN <<>>
                        ELSE IF k = "metadata" THEN EmptyDict
                        ELSE None]
                payload == Payload(Arg(4), fields)
                Summary(given, positional) ==
                    IF "summary" \in DOMAIN given THEN given["summary"] ELSE positional
                room_summary ==
                    Summary(parse_field_args(SubSeq(args, 4, n)),
                            IF n > 3 /\ ~Contains("=", Arg(3)) THEN Arg(3) ELSE None)
            IN  IF parts = <<>> THEN None_
                ELSE IF cmd = "dungeon" /\ n >= 1
                THEN IF subcmd = "create" /\ n >= 2
                     THEN Answer(dm_create_dungeon(S, None, Arg(1), None, exists_ok),
                                 "dungeon.create", "CREATED", TRUE)
                     ELSE IF subcmd = "list"
                     THEN Answer(dm_list_dungeons(S, None), "dungeon.list", "LIST", FALSE)
                     ELSE IF subcmd = "rename" /\ n >= 3
                     THEN Answer(dm_rename_dungeon(S, None, Arg(1), Arg(2)),
                                 "dungeon.rename", "RENAMED", TRUE)
                     ELSE IF subcmd = "delete" /\ n >= 2
                     THEN Answer(dm_delete_dungeon(S, None, Arg(1), token),
                                 "dungeon.delete", "DELETED_HARD", TRUE)
                     ELSE None_
                ELSE IF cmd = "room" /\ n >= 1
                THEN IF subcmd = "create" /\ n >= 3
                     THEN Answer(dm_create_room(S, None, Arg(1), Arg(2), exists_ok, room_summary),
                                 "room.create", "CREATED", TRUE)
                     ELSE IF subcmd = "list" /\ n >= 2
                     THEN Answer(dm_list_rooms(S, None, Arg(1)), "room.list", "LIST", FALSE)
                     ELSE IF subcmd = "rename" /\ n >= 4
                     THEN Answer(dm_rename_room(S, None, Arg(1), Arg(2), Arg(3)),
                                 "room.rename", "RENAMED", TRUE)
                     ELSE IF subcmd = "delete" /\ n >= 3
                     THEN Answer(dm_delete_room(S, None, Arg(1), Arg(2), token),
                                 "room.delete", "DELETED_HARD", TRUE)
                     ELSE None_
                ELSE IF cmd = "item" /\ n >= 1
                THEN IF subcmd = "create" /\ n >= 5
                     THEN UNION {IF o.res.status = "returned"
                                 THEN Answer(dm_read_item(o.S, None, Arg(1), Arg(2), Arg(3), Arg(4)),
                                             "item.create", "CREATED", TRUE)
                                 ELSE {Failed(o.S, o.res.code)} :
                                     o \in dm_create_item(S, None, Arg(1), Arg(2), Arg(3), payload,
                                                          exists_ok)}
                     ELSE IF subcmd = "read" /\ n >= 5
                     THEN Answer(dm_read_item(S, None, Arg(1), Arg(2), Arg(3), Arg(4)),
                                 "item.read", "READ", FALSE)
                     ELSE IF subcmd = "update" /\ n >= 5
                     THEN Answer(dm_update_item(S, None, Arg(1), Arg(2), Arg(3), Arg(4), fields),
                                 "item.update", "UPDATED", TRUE)
                     ELSE IF subcmd = "rename" /\ n >= 6
                     THEN Answer(dm_rename_item(S, None, Arg(1), Arg(2), Arg(3), Arg(4), Arg(5)),
                                 "item.rename", "RENAMED", TRUE)
                     ELSE IF subcmd = "delete" /\ n >= 5
                     THEN Answer(dm_delete_item(S, None, Arg(1), Arg(2), Arg(3), Arg(4), token),
                                 "item.delete", "DELETED_HARD", TRUE)
                     ELSE IF subcmd = "move" /\ n >= 8
                     THEN Answer(dm_move_item(S, None, src, Arg(4), dst,
                                              Has("overwrite", 0) \/ Has("--overwrite", 0)),
                                 "item.move", "MOVED", TRUE)
                     ELSE IF subcmd = "copy" /\ n >= 8
                     THEN Answer(dm_copy_item(S, None, src, Arg(4), dst, Given("new_name=", 8),
                                              Has("overwrite", 8) \/ Has("--overwrite", 8)),
                                 "item.copy", "COPIED", TRUE)
                     ELSE None_
                ELSE IF cmd = "category" /\ n >= 1
                THEN IF subcmd = "list" /\ n >= 4
                     THEN Answer(dm_list_category_items(S, None, Arg(1), Arg(2), Arg(3)),
                                 "category.list", "LIST", FALSE)
                     ELSE IF subcmd = "ensure" /\ n >= 4
                     THEN Answer(dm_ensure_category(S, None, Arg(1), Arg(2), Arg(3)),
                                 "category.ensure", "ENSURED", FALSE)
                     ELSE None_
                ELSE IF cmd = "search" /\ n >= 1
                THEN Answer(dm_search(S, None, Arg(0), Given("dungeon=", 1),
                                      IF Given("tags=", 1) = None THEN None
                                      ELSE parse_tags(Given("tags=", 1))),
                            "search", "LIST", FALSE)
                ELSE IF cmd = "stat" /\ n >= 1
                THEN Answer(dm_stat(S, None, Arg(0), IF n > 1 THEN Arg(1) ELSE None,
                                    IF n > 2 THEN Arg(2) ELSE None, IF n > 3 THEN Arg(3) ELSE None),
                            "stat", "READ", FALSE)
                ELSE IF cmd = "list" /\ n >= 1
                THEN Answer(dm_list_children(S, None, Arg(0), IF n > 1 THEN Arg(1) ELSE None,
                                             IF n > 2 THEN Arg(2) ELSE None),
                            "list", "LIST", FALSE)
                ELSE IF cmd = "export" /\ n >= 1
                THEN Answer(dm_export_dungeon(S, None, Arg(0)), "export", "READ", FALSE)
                ELSE {Failed(S, "DSLSyntaxError")}
    IN  IF stripped = "" \/ StartsWith(stripped, "#") THEN None_
        ELSE Dispatch(tokenize(stripped))

\* execute_file on the lines of a file (found: the file exists).
\* execute_command catches every exception itself, so the except branches
\* of the loop are never taken.
execute_file(S, found, lines) ==
    LET op == "batch"
        Start == [S |-> S, ok |-> 0, error |-> 0, skipped |-> 0, results |-> <<>>]
        Count(run, o) ==
            IF o.res = NoEnvelope
            THEN [run EXCEPT !.S = o.S, !.skipped = @ + 1]
            ELSE IF o.res.status = "ok"
            THEN [run EXCEPT !.S = o.S, !.ok = @ + 1, !.results = Append(@, o.res)]
            ELSE IF o.res.status = "error"
            THEN [run EXCEPT !.S = o.S, !.error = @ + 1, !.results = Append(@, o.res)]
            ELSE [run EXCEPT !.S = o.S, !.skipped = @ + 1, !.results = Append(@, o.res)]
        RECURSIVE Loop(_, _)
        Loop(k, runs) ==
            IF k > Len(lines) THEN runs
            ELSE Loop(k + 1, UNION {{Count(run, o) : o \in execute_command(run.S, lines[k])} :
                                        run \in runs})
        Batch(run) ==
            [MakeResult(op, IF run.error = 0 THEN "ok" ELSE "error", "BATCH") EXCEPT !.out =
                {[summary |-> [lines_total |-> Len(lines), ok |-> run.ok, error |-> run.error,
                               skipped |-> run.skipped],
                  results |-> run.results]}]
    IN  IF ~found THEN {Outcome(S, Raised(op, "DSLExecutionError"))}
        ELSE {Outcome(run.S, Batch(run)) : run \in Loop(1, {Start})}

\* The lines a caller submits: well-formed commands, malformed ones, blanks
\* and comments.
Lines ==
    {"dungeon create A", "dungeon create B exists_ok", "dungeon list", "dungeon rename A B",
     "dungeon delete A token=DELETE:/A", "room create A R", "room create A R \"a Bat\"",
     "room list A", "room rename A R S", "room delete A R token='DELETE:/A/R'",
     "item create A R traps Axe", "item create A R traps Bat summary=\"an AXE\" tags=undead",
     "item read A R traps Axe", "item update A R traps Axe summary=new",
     "item rename A R traps Axe Bat", "item delete A R traps Axe",
     "item move A R traps Axe A R junk", "item copy A R traps Axe A R traps new_name=Bat",
     "category list A R traps", "category ensure A R traps", "search axe tags=dc15 dungeon=A",
     "stat A R", "list A", "export A", "import A",
     "frobnicate A", "dungeon", "dungeon frob A", "Dungeon Create", "room create A",
     "item read A R", "category ensure A R",
     "", "  ", "# note", "\"\""}

MaxLines == 2

\* The lines a file is made of.
FileLines == {"dungeon list", "stat A", "frobnicate A", "dungeon frob A", "# note", ""}

RECURSIVE FilesOf(_)
FilesOf(len) ==
    IF len = 0 THEN {<<>>}
    ELSE FilesOf(len - 1)
         \cup {Append(f, l) : f \in {g \in FilesOf(len - 1) : Len(g) = len - 1}, l \in FileLines}

Files == FilesOf(MaxLines)

ExecuteCommand == \E line \in Lines : Call(execute_command(TheStore, line))

ExecuteFile ==
    \/ \E f \in Files : Call(execute_file(TheStore, TRUE, f))
    \/ Call(execute_file(TheStore, FALSE, <<>>))

\* Owners fill the store through the store functions; DSL commands and
\* files are executed in between.
DslNext ==
    \/ CreateDungeon
    \/ CreateRoom
    \/ CreateItem
    \/ ImportDungeon
    \/ ExecuteCommand
    \/ ExecuteFile
    \/ Return

DslSpec == Init /\ [][DslNext]_vars

\* ------------------------------------------------------------ concurrency
\* The Flask server (app.run, threaded) serves each request in its own
\* thread, so store functions of one owner interleave at their database
\* accesses.  Each access (find_one, find, insert_one, update_one,
\* update_many, delete_one, delete_many) is one atomic step; what a function
\* computes between two accesses belongs to the step of the access before.
\* Here a document carries its _id, because a function holds it from one
\* access to the next.
MaxThreads == 2

Threads == 1 .. MaxThreads

\* A function that goes on to its next access: pc names the access, found
\* holds the _id of the document it read.
Proceed(S, pc, found) == [S |-> S, pc |-> pc, found |-> found, res |-> Idle]

\* A function that returns (or raises) r.
Finish(S, r) == [S |-> S, pc |-> "done", found |-> {}, res |-> r]

\* The documents a filter {"_id": ...} matches.
ById(B, ids) == {doc \in Docs(B) : doc._id \in ids}

create_dungeon_step(S, c) ==
    LET op == "dungeon.create"
        doc == ("_id" :> c.id) @@ DungeonDoc(c.user_id, c.name, None, FALSE, UtcNow)
        existing == {d \in Docs(S.dungeons) :
                        d.name = c.name /\ d.user_id = c.user_id /\ ~d.deleted}
        Envelope(d, code) ==
            IF HasTimestamp(d.created_at) /\ HasTimestamp(d.updated_at)
            THEN Ok(op, code, code = "CREATED")
            ELSE Raised(op, "AttributeError")
    IN  CASE c.pc = "start" ->
               \* insert_one
               IF ~DuplicateKey(S.dungeons, doc, "dungeons")
               THEN {Finish([S EXCEPT !.dungeons = InsertDoc(@, doc)], Envelope(doc, "CREATED"))}
               ELSE IF ~c.exists_ok THEN {Finish(S, Error(op, "ERROR_CONFLICT"))}
               ELSE {Proceed(S, "find", {})}
          [] c.pc = "find" ->
               IF existing = {} THEN {Finish(S, Error(op, "ERROR_CONFLICT"))}
               ELSE {Finish(S, Envelope(d, "NOOP")) : d \in existing}

\* A rename_dungeon whose row update and cascades are one access.
rename_dungeon_atomic(S, c) ==
    {Finish(o.S, o.res) : o \in rename_dungeon(S, c.user_id, c.dungeon, c.name)}

rename_dungeon_step(S, c) ==
    LET op == "dungeon.rename"
        u == c.user_id
        olds == {d \in Docs(S.dungeons) : d.name = c.dungeon /\ d.user_id = u /\ ~d.deleted}
        conflict == \E d \in Docs(S.dungeons) : d.name = c.name /\ d.user_id = u /\ ~d.deleted
        InScope(doc) == doc.dungeon = c.dungeon /\ doc.user_id = u
        Renamed(old) == [old EXCEPT !.name = c.name, !.updated_at = UtcNow]
        Cascade(B, coll, S2(_), then(_)) ==
            {IF m.ok THEN then(S2(m.B)) ELSE Finish(S2(m.B), Raised(op, "DuplicateKeyError"))
             : m \in update_many(B, {doc \in Docs(B) : InScope(doc)}, "dungeon", c.name, coll)}
    IN  CASE c.pc = "start" ->
               IF olds = {} THEN {Finish(S, Error(op, "ERROR_NOT_FOUND"))}
               ELSE {Proceed(S, "conflict", {old._id}) : old \in olds}
          [] c.pc = "conflict" ->
               IF conflict THEN {Finish(S, Error(op, "ERROR_CONFLICT"))}
               ELSE {Proceed(S, "row", c.found)}
          [] c.pc = "row" ->
               \* update_one({"_id": old["_id"]}, ...)
               IF ById(S.dungeons, c.found) = {} THEN {Proceed(S, "rooms", c.found)}
               ELSE {IF DuplicateKey(DeleteOneDoc(S.dungeons, old), Renamed(old), "dungeons")
                     THEN Finish(S, Raised(op, "DuplicateKeyError"))
                     ELSE Proceed([S EXCEPT !.dungeons = ReplaceOneDoc(@, old, Renamed(old))],
                                  "rooms", c.found)
                     : old \in ById(S.dungeons, c.found)}
          [] c.pc = "rooms" ->
               Cascade(S.rooms, "rooms", LAMBDA B : [S EXCEPT !.rooms = B],
                       LAMBDA S2 : Proceed(S2, "items", c.found))
          [] c.pc = "items" ->
               Cascade(S.items, "items", LAMBDA B : [S EXCEPT !.items = B],
                       LAMBDA S2 : Finish(S2, [Ok(op, "RENAMED", TRUE) EXCEPT !.name = c.name]))

\* update_dungeon with the patch {"name": c.name}, c.name # c.dungeon.
update_dungeon_step(S, c) ==
    LET op == "dungeon.update"
        u == c.user_id
        docs == {d \in Docs(S.dungeons) : d.name = c.dungeon /\ d.user_id = u /\ ~d.deleted}
        conflict == \E d \in Docs(S.dungeons) : d.name = c.name /\ d.user_id = u /\ ~d.deleted
        InScope(doc) == doc.dungeon = c.dungeon /\ doc.user_id = u
        Patched(doc) == [doc EXCEPT !.name = c.name, !.updated_at = UtcNow]
        Cascade(B, coll, S2(_), pc) ==
            {IF m.ok THEN Proceed(S2(m.B), pc, c.found)
             ELSE Finish(S2(m.B), Raised(op, "DuplicateKeyError"))
             : m \in update_many(B, {doc \in Docs(B) : InScope(doc)}, "dungeon", c.name, coll)}
    IN  CASE c.pc = "start" ->
               IF docs = {} THEN {Finish(S, Error(op, "ERROR_NOT_FOUND"))}
               ELSE {Proceed(S, "conflict", {doc._id}) : doc \in docs}
          [] c.pc = "conflict" ->
               IF conflict THEN {Finish(S, Error(op, "ERROR_CONFLICT"))}
               ELSE {Proceed(S, "rooms", c.found)}
          [] c.pc = "rooms" ->
               Cascade(S.rooms, "rooms", LAMBDA B : [S EXCEPT !.rooms = B], "items")
          [] c.pc = "items" ->
               Cascade(S.items, "items", LAMBDA B : [S EXCEPT !.items = B], "row")
          [] c.pc = "row" ->
               \* update_one({"_id": doc["_id"]}, {"$set": update_fields})
               IF ById(S.dungeons, c.found) = {} THEN {Proceed(S, "read", c.found)}
               ELSE {IF DuplicateKey(DeleteOneDoc(S.dungeons, doc), Patched(doc), "dungeons")
                     THEN Finish(S, Raised(op, "DuplicateKeyError"))
                     ELSE Proceed([S EXCEPT !.dungeons = ReplaceOneDoc(@, doc, Patched(doc))],
                                  "read", c.found)
                     : doc \in ById(S.dungeons, c.found)}
          [] c.pc = "read" ->
               \* updated_doc = find_one({"_id": doc["_id"]}); updated_doc["name"]
               IF ById(S.dungeons, c.found) = {} THEN {Finish(S, Raised(op, "TypeError"))}
               ELSE {Finish(S, [Ok(op, "UPDATED", TRUE) EXCEPT !.name = updated_doc.name])
                     : updated_doc \in ById(S.dungeons, c.found)}

\* delete_dungeon with the expected token.
delete_dungeon_step(S, c) ==
    LET op == "dungeon.delete"
        u == c.user_id
        docs == {d \in Docs(S.dungeons) : d.name = c.dungeon /\ d.user_id = u}
        InScope(doc) == doc.dungeon = c.dungeon /\ doc.user_id = u
    IN  CASE c.pc = "start" ->
               IF docs = {} THEN {Finish(S, Error(op, "ERROR_NOT_FOUND"))}
               ELSE {Proceed(S, "row", {doc._id}) : doc \in docs}
          [] c.pc = "row" ->
               {Proceed([S EXCEPT !.dungeons = DeleteManyDocs(@, ById(@, c.found))],
                        "rooms", c.found)}
          [] c.pc = "rooms" ->
               {Proceed([S EXCEPT !.rooms =
                            DeleteManyDocs(@, {doc \in Docs(@) : InScope(doc)})],
                        "items", c.found)}
          [] c.pc = "items" ->
               {Finish([S EXCEPT !.items =
                            DeleteManyDocs(@, {doc \in Docs(@) : InScope(doc)})],
                       Ok(op, "DELETED_HARD", TRUE))}

create_room_step(S, c) ==
    LET op == "room.create"
        doc == ("_id" :> c.id) @@ RoomDoc(c.user_id, c.dungeon, c.name, None, FALSE, UtcNow)
    IN  CASE c.pc = "start" ->
               IF ~DungeonExists(S, c.user_id, c.dungeon)
               THEN {Finish(S, Error(op, "ERROR_NOT_FOUND"))}
               ELSE {Proceed(S, "insert", {})}
          [] c.pc = "insert" ->
               IF ~DuplicateKey(S.rooms, doc, "rooms")
               THEN {Finish([S EXCEPT !.rooms = InsertDoc(@, doc)],
                            [Ok(op, "CREATED", TRUE) EXCEPT !.name = c.name])}
               ELSE IF ~c.exists_ok THEN {Finish(S, Error(op, "ERROR_CONFLICT"))}
               ELSE {Finish(S, [Ok(op, "NOOP", FALSE) EXCEPT !.name = c.name])}

list_rooms_step(S, c) ==
    LET op == "room.list"
        docs == {r \in Docs(S.rooms) :
                    r.dungeon = c.dungeon /\ r.user_id = c.user_id /\ ~r.deleted}
    IN  CASE c.pc = "start" ->
               IF ~DungeonExists(S, c.user_id, c.dungeon)
               THEN {Finish(S, Error(op, "ERROR_NOT_FOUND"))}
               ELSE {Proceed(S, "find", {})}
          [] c.pc = "find" ->
               {Finish(S, [Ok(op, "LIST", FALSE) EXCEPT !.out = {r.name : r \in docs}])}

\* rename_room of c.room to c.name.
rename_room_step(S, c) ==
    LET op == "room.rename"
        u == c.user_id
        olds == {r \in Docs(S.rooms) :
                    r.dungeon = c.dungeon /\ r.name = c.room /\ r.user_id = u /\ ~r.deleted}
        conflict == \E r \in Docs(S.rooms) :
                        r.dungeon = c.dungeon /\ r.name = c.name /\ r.user_id = u /\ ~r.deleted
        InScope(doc) == doc.dungeon = c.dungeon /\ doc.room = c.room /\ doc.user_id = u
        Renamed(old) == [old EXCEPT !.name = c.name, !.updated_at = UtcNow]
    IN  CASE c.pc = "start" ->
               IF ~DungeonExists(S, u, c.dungeon) THEN {Finish(S, Error(op, "ERROR_NOT_FOUND"))}
               ELSE {Proceed(S, "old", {})}
          [] c.pc = "old" ->
               IF olds = {} THEN {Finish(S, Error(op, "ERROR_NOT_FOUND"))}
               ELSE {Proceed(S, "conflict", {old._id}) : old \in olds}
          [] c.pc = "conflict" ->
               IF conflict THEN {Finish(S, Error(op, "ERROR_CONFLICT"))}
               ELSE {Proceed(S, "row", c.found)}
          [] c.pc = "row" ->
               IF ById(S.rooms, c.found) = {} THEN {Proceed(S, "items", c.found)}
               ELSE {IF DuplicateKey(DeleteOneDoc(S.rooms, old), Renamed(old), "rooms")
                     THEN Finish(S, Raised(op, "DuplicateKeyError"))
                     ELSE Proceed([S EXCEPT !.rooms = ReplaceOneDoc(@, old, Renamed(old))],
                                  "items", c.found)
                     : old \in ById(S.rooms, c.found)}
          [] c.pc = "items" ->
               {IF m.ok THEN Finish([S EXCEPT !.items = m.B],
                                    [Ok(op, "RENAMED", TRUE) EXCEPT !.name = c.name])
                ELSE Finish([S EXCEPT !.items = m.B], Raised(op, "DuplicateKeyError"))
                : m \in update_many(S.items, {doc \in Docs(S.items) : InScope(doc)},
                                    "room", c.name, "items")}

\* create_item of the trap c.name, payload {"name": c.name}.
create_item_step(S, c) ==
    LET op == "item.create"
        u == c.user_id
        category == "traps"
        doc == ("_id" :> c.id) @@ ItemDoc(u, c.dungeon, c.room, category, c.name, None, None,
                                          <<>>, <<>>, FALSE, UtcNow)
        Upsert(old) == [doc EXCEPT !.created_at = old.created_at, !._id = old._id]
        existing == {i \in ItemsAt(S, u, c.dungeon, c.room, category, c.name) : ~i.deleted}
    IN  CASE c.pc = "start" ->
               IF ~RoomExists(S, u, c.dungeon, c.room)
               THEN {Finish(S, Error(op, "ERROR_NOT_FOUND"))}
               ELSE {Proceed(S, "insert", {})}
          [] c.pc = "insert" ->
               IF ~DuplicateKey(S.items, doc, "items")
               THEN {Finish([S EXCEPT !.items = InsertDoc(@, doc)],
                            [Ok(op, "CREATED", TRUE) EXCEPT !.name = c.name])}
               ELSE IF ~c.exists_ok THEN {Finish(S, Error(op, "ERROR_CONFLICT"))}
               ELSE {Proceed(S, "merge", {})}
          [] c.pc = "merge" ->
               \* update_one({..., "deleted": False}, {"$set": ...}) without upsert
               IF existing = {} THEN {Finish(S, [Ok(op, "NOOP", FALSE) EXCEPT !.name = c.name])}
               ELSE {Finish([S EXCEPT !.items = ReplaceOneDoc(@, old, Upsert(old))],
                            [Ok(op, "NOOP", FALSE) EXCEPT !.name = c.name]) : old \in existing}

\* The next access of the call c.
StepsOf(S, c) ==
    CASE c.op = "dungeon.create" -> create_dungeon_step(S, c)
      [] c.op = "dungeon.rename" -> rename_dungeon_step(S, c)
      [] c.op = "dungeon.update" -> update_dungeon_step(S, c)
      [] c.op = "dungeon.delete" -> delete_dungeon_step(S, c)
      [] c.op = "room.create" -> create_room_step(S, c)
      [] c.op = "room.list" -> list_rooms_step(S, c)
      [] c.op = "room.rename" -> rename_room_step(S, c)
      [] c.op = "item.create" -> create_item_step(S, c)

\* The requests of owner u1 that race: creates of the free names C, A/S and
\* A/R/traps/Bat, a rename and a patch of A to C, the delete of A, the rename
\* of A/R to S, and readers of A and C.
Requests ==
    LET Request(op, d, r, n, e) ==
            [op |-> op, user_id |-> "u1", dungeon |-> d, room |-> r, name |-> n,
             exists_ok |-> e]
    IN  {Request("dungeon.create", None, None, "C", e) : e \in BOOLEAN}
        \cup {Request("room.create", "A", None, "S", e) : e \in BOOLEAN}
        \cup {Request("item.create", "A", "R", "Bat", e) : e \in BOOLEAN}
        \cup {Request(op, "A", None, "C", FALSE) : op \in {"dungeon.rename", "dungeon.update"}}
        \cup {Request("dungeon.delete", "A", None, None, FALSE)}
        \cup {Request("room.rename", "A", "R", "S", FALSE)}
        \cup {Request("room.list", d, None, None, FALSE) : d \in {"A", "C"}}

\* Stores the owner's earlier calls have left: dungeon A, alone or with the
\* room R holding the trap Axe.
StartStores ==
    LET A == ("_id" :> 11) @@ DungeonDoc("u1", "A", None, FALSE, UtcNow)
        R == ("_id" :> 12) @@ RoomDoc("u1", "A", "R", None, FALSE, UtcNow)
        Axe == ("_id" :> 13) @@ ItemDoc("u1", "A", "R", "traps", "Axe", None, None,
                                        <<>>, <<>>, FALSE, UtcNow)
    IN  {Store(SetToBag({A}), EmptyBag, EmptyBag),
         Store(SetToBag({A}), SetToBag({R}), SetToBag({Axe}))}

\* Thread t of a request with operation op makes its next database access.
Step(op) ==
    \E t \in Threads :
        /\ calls[t].op = op
        /\ calls[t].pc # "done"
        /\ \E o \in StepsOf(TheStore, calls[t]) :
              /\ dungeons' = o.S.dungeons
              /\ rooms' = o.S.rooms
              /\ items' = o.S.items
              /\ calls' = [calls EXCEPT ![t].pc = o.pc, ![t].found = o.found,
                                        ![t].res = o.res]
        /\ UNCHANGED <<res, nops>>

\* The threads have taken their requests and no access has been made.
ConcInit ==
    /\ \E S \in StartStores :
          /\ dungeons = S.dungeons
          /\ rooms = S.rooms
          /\ items = S.items
    /\ res = Idle
    /\ nops = 0
    /\ \E q \in [Threads -> Requests] :
          calls = [t \in Threads |->
                      q[t] @@ [id |-> t, pc |-> "start", found |-> {}, res |-> Idle]]

ConcNext ==
    \/ Step("dungeon.create")
    \/ Step("dungeon.rename")
    \/ Step("dungeon.update")
    \/ Step("dungeon.delete")
    \/ Step("room.create")
    \/ Step("room.list")
    \/ Step("room.rename")
    \/ Step("item.create")

ConcSpec == ConcInit /\ [][ConcNext]_vars

\* ------------------------------------------------------------ properties
\* The rows of a collection that are not deleted.
Live(B) == {doc \in Docs(B) : ~doc.deleted}

\* The three collections keep their rows.
StoreUnchanged == UNCHANGED <<dungeons, rooms, items>>

\* The store after the step.
TheStoreAfter == Store(dungeons', rooms', items')

WrongTokens(path) == Tokens(path) \ {"DELETE:" \o path}

\* The delete answered ERROR_UNSAFE with the token to use.
AnsweredUnsafe(path) ==
    /\ res'.status = "error"
    /\ res'.code = "ERROR_UNSAFE"
    /\ res'.token_hint = "DELETE:" \o path

AnsweredNotFound == res'.status = "error" /\ res'.code = "ERROR_NOT_FOUND"

\* The owner holds a row, deleted or not, at the path.
HoldsDungeon(u, d) == \E x \in Docs(dungeons) : x.user_id = u /\ x.name = d

HoldsRoom(u, d, r) ==
    \E x \in Docs(rooms) : x.user_id = u /\ x.dungeon = d /\ x.name = r

HoldsItem(u, t) ==
    \E x \in Docs(items) :
        /\ x.user_id = u /\ x.dungeon = t.dungeon /\ x.room = t.room
        /\ x.category = t.category /\ x.name = t.name

\* C2 as stated: a delete of any path with the token absent or wrong changes
\* no row and always answers ERROR_UNSAFE with token_hint "DELETE:" + path.
C2_WrongTokenAlwaysUnsafe ==
    [][res'.op \in {"dungeon.delete", "room.delete", "item.delete"} =>
        /\ \A u \in Owners, d \in DungeonTargets :
              \A k \in WrongTokens(DungeonPath(d)) :
                  Call(delete_dungeon(TheStore, u, d, k)) =>
                      StoreUnchanged /\ AnsweredUnsafe(DungeonPath(d))
        /\ \A u \in Owners, t \in RoomTargets :
              \A k \in WrongTokens(RoomPath(t.dungeon, t.room)) :
                  Call(delete_room(TheStore, u, t.dungeon, t.room, k)) =>
                      StoreUnchanged /\ AnsweredUnsafe(RoomPath(t.dungeon, t.room))
        /\ \A u \in Owners, t \in ItemTargets :
              \A k \in WrongTokens(ItemPath(t.dungeon, t.room, t.category, t.name)) :
                  Call(delete_item(TheStore, u, t.dungeon, t.room, t.category, t.name, k)) =>
                      /\ StoreUnchanged
                      /\ AnsweredUnsafe(ItemPath(t.dungeon, t.room, t.category, t.name))
    ]_vars

\* C2, amended: a delete of any path with the token absent or wrong changes no
\* row; it answers ERROR_UNSAFE with token_hint "DELETE:" + path when the
\* owner holds a row (deleted or not) at the path, and ERROR_NOT_FOUND when
\* the owner holds none.
C2_WrongTokenNeverDeletes ==
    [][res'.op \in {"dungeon.delete", "room.delete", "item.delete"} =>
        /\ \A u \in Owners, d \in DungeonTargets :
              \A k \in WrongTokens(DungeonPath(d)) :
                  Call(delete_dungeon(TheStore, u, d, k)) =>
                      /\ StoreUnchanged
                      /\ IF HoldsDungeon(u, d) THEN AnsweredUnsafe(DungeonPath(d))
                         ELSE AnsweredNotFound
        /\ \A u \in Owners, t \in RoomTargets :
              \A k \in WrongTokens(RoomPath(t.dungeon, t.room)) :
                  Call(delete_room(TheStore, u, t.dungeon, t.room, k)) =>
                      /\ StoreUnchanged
                      /\ IF HoldsRoom(u, t.dungeon, t.room)
                         THEN AnsweredUnsafe(RoomPath(t.dungeon, t.room))
                         ELSE AnsweredNotFound
        /\ \A u \in Owners, t \in ItemTargets :
              \A k \in WrongTokens(ItemPath(t.dungeon, t.room, t.category, t.name)) :
                  Call(delete_item(TheStore, u, t.dungeon, t.room, t.category, t.name, k)) =>
                      /\ StoreUnchanged
                      /\ IF HoldsItem(u, t)
                         THEN AnsweredUnsafe(ItemPath(t.dungeon, t.room, t.category, t.name))
                         ELSE AnsweredNotFound
    ]_vars

\* A delete without the right token was answered ERROR_UNSAFE with the hint,
\* and the rows it addressed are stored.
C2_UnsafeAnswered ==
    /\ res.op \in {"dungeon.delete", "room.delete", "item.delete"}
    /\ res.code = "ERROR_UNSAFE"
    /\ res.token_hint # None
    /\ Live(dungeons) # {}

\* What list of a path shows: the rooms of a dungeon by name and summary, the
\* leaves of a category by name.
RoomsListed(S, u, d) ==
    {[name |-> e.name, summary |-> e.summary] :
        e \in UNION {o.res.out : o \in list_children(S, u, d, None, None)}}

LeavesListed(S, u, d, r, c) ==
    {e.name : e \in UNION {o.res.out : o \in list_children(S, u, d, r, c)}}

ListsOk(S, u, d, r, c) ==
    \A o \in list_children(S, u, d, r, c) : o.res.status = "ok"

ListsNotFound(S, u, d, r, c) ==
    \A o \in list_children(S, u, d, r, c) :
        o.res.status = "error" /\ o.res.code = "ERROR_NOT_FOUND"

\* The rows of the collection the predicate leaves out are stored as before.
OthersKept(B, Bafter, subtree) ==
    \A x \in (Docs(B) \cup Docs(Bafter)) \ subtree :
        CopiesIn(x, Bafter) = CopiesIn(x, B)

\* C3: after delete of a dungeon with the token "DELETE:" + path returns ok,
\* no dungeon, room or item row of that owner carrying that dungeon name
\* remains and list of the path returns ERROR_NOT_FOUND; after delete of a
\* room with its token no item under that room remains; rows outside the
\* deleted subtree are unchanged.
C3_DeleteRemovesSubtree ==
    [][(res'.op \in {"dungeon.delete", "room.delete"} /\ res'.status = "ok") =>
        /\ \A u \in Owners, d \in DungeonTargets :
              Call(delete_dungeon(TheStore, u, d, "DELETE:" \o DungeonPath(d))) =>
                  /\ ~\E x \in Docs(dungeons') : x.user_id = u /\ x.name = d
                  /\ ~\E x \in Docs(rooms') : x.user_id = u /\ x.dungeon = d
                  /\ ~\E x \in Docs(items') : x.user_id = u /\ x.dungeon = d
                  /\ ListsNotFound(TheStoreAfter, u, d, None, None)
                  /\ OthersKept(dungeons, dungeons',
                                {x \in Docs(dungeons) \cup Docs(dungeons') : x.user_id = u /\ x.name = d})
                  /\ OthersKept(rooms, rooms',
                                {x \in Docs(rooms) \cup Docs(rooms') : x.user_id = u /\ x.dungeon = d})
                  /\ OthersKept(items, items',
                                {x \in Docs(items) \cup Docs(items') : x.user_id = u /\ x.dungeon = d})
        /\ \A u \in Owners, t \in RoomTargets :
              Call(delete_room(TheStore, u, t.dungeon, t.room,
                               "DELETE:" \o RoomPath(t.dungeon, t.room))) =>
                  /\ ~\E x \in Docs(items') :
                        x.user_id = u /\ x.dungeon = t.dungeon /\ x.room = t.room
                  /\ dungeons' = dungeons
                  /\ OthersKept(rooms, rooms',
                                {x \in Docs(rooms) \cup Docs(rooms') : x.user_id = u /\ x.dungeon = t.dungeon /\ x.name = t.room})
                  /\ OthersKept(items, items',
                                {x \in Docs(items) \cup Docs(items') : x.user_id = u /\ x.dungeon = t.dungeon /\ x.room = t.room})
    ]_vars

\* The leaves read_item returns at a path.
LeavesRead(S, u, d, r, c, i) ==
    UNION {o.res.out : o \in {x \in read_item(S, u, d, r, c, i) : x.res.status = "ok"}}

\* C4: after a rename of a dungeon (or of a room within a dungeon) returns ok,
\* list of the new path returns exactly the children list of the old path
\* returned before, every leaf readable under the old path is readable under
\* the new path with the same fields, and list of the old path returns
\* ERROR_NOT_FOUND.
C4_RenameKeepsChildren ==
    [][(res'.op \in {"dungeon.rename", "room.rename"} /\ res'.status = "ok") =>
        /\ \A u \in Owners, d \in DungeonTargets, n \in DungeonNames :
              Call(rename_dungeon(TheStore, u, d, n)) =>
                  /\ ListsOk(TheStoreAfter, u, n, None, None)
                  /\ RoomsListed(TheStoreAfter, u, n) = RoomsListed(TheStore, u, d)
                  /\ \A r \in RoomsListed(TheStore, u, d), c \in CATEGORIES :
                        /\ LeavesListed(TheStoreAfter, u, n, r.name, c)
                              = LeavesListed(TheStore, u, d, r.name, c)
                        /\ \A i \in LeavesListed(TheStore, u, d, r.name, c) :
                              LeavesRead(TheStore, u, d, r.name, c, i)
                                  \subseteq LeavesRead(TheStoreAfter, u, n, r.name, c, i)
                  /\ ListsNotFound(TheStoreAfter, u, d, None, None)
        /\ \A u \in Owners, t \in RoomTargets, n \in RoomNames :
              Call(rename_room(TheStore, u, t.dungeon, t.room, n)) =>
                  /\ \A c \in CATEGORIES :
                        /\ ListsOk(TheStoreAfter, u, t.dungeon, n, c)
                        /\ LeavesListed(TheStoreAfter, u, t.dungeon, n, c)
                              = LeavesListed(TheStore, u, t.dungeon, t.room, c)
                        /\ \A i \in LeavesListed(TheStore, u, t.dungeon, t.room, c) :
                              LeavesRead(TheStore, u, t.dungeon, t.room, c, i)
                                  \subseteq LeavesRead(TheStoreAfter, u, t.dungeon, n, c, i)
                        /\ ListsNotFound(TheStoreAfter, u, t.dungeon, t.room, c)
                  /\ ListsNotFound(TheStoreAfter, u, t.dungeon, t.room, None)
    ]_vars

\* The part of C4 about dungeons alone.
C4_DungeonRenameKeepsChildren ==
    [][(res'.op = "dungeon.rename" /\ res'.status = "ok") =>
        \A u \in Owners, d \in DungeonTargets, n \in DungeonNames :
            Call(rename_dungeon(TheStore, u, d, n)) =>
                /\ RoomsListed(TheStoreAfter, u, n) = RoomsListed(TheStore, u, d)
                /\ ListsNotFound(TheStoreAfter, u, d, None, None)
    ]_vars

\* The owner's non-deleted leaves at a place under a name.
LiveLeaves(u, b, name) ==
    {x \in Live(items) :
        /\ x.user_id = u /\ x.dungeon = b.dungeon /\ x.room = b.room
        /\ x.category = b.category /\ x.name = name}

\* C5: a move with overwrite false of a leaf to a place that holds a
\* non-deleted leaf of the same name returns ERROR_CONFLICT and leaves the
\* source leaf and the destination leaf as they were.
C5_MoveOntoHeldNameConflicts ==
    [][res'.op = "item.move" =>
        \A u \in Owners, t \in ItemTargets, b \in CategoryTargets :
            (/\ LiveLeaves(u, t, t.name) # {}
             /\ LiveLeaves(u, b, t.name) # {}
             /\ Call(move_item(TheStore, u, t, t.name, b, FALSE))) =>
                /\ res'.status = "error"
                /\ res'.code = "ERROR_CONFLICT"
                /\ StoreUnchanged
    ]_vars

\* Move of a leaf the store holds never gets past reading the source: no move
\* returns an envelope with status ok, which leaves C6 (what holds whenever
\* move returns MOVED) without a case to examine.
MoveNeverReturnsOk == res.op = "item.move" => res.status # "ok"

\* The owner's non-deleted rooms and leaves under a dungeon name, without the
\* dungeon name itself.
Subtree(S, u, d) ==
    [rooms |-> {[name |-> r.name, summary |-> r.summary] :
                    r \in {x \in Live(S.rooms) : x.user_id = u /\ x.dungeon = d}},
     leaves |-> {[room |-> i.room, category |-> i.category, name |-> i.name,
                  summary |-> i.summary, notes_md |-> i.notes_md, tags |-> i.tags,
                  metadata |-> i.metadata] :
                    i \in {x \in Live(S.items) : x.user_id = u /\ x.dungeon = d}}]

\* C7: for every dungeon X of an owner, export of X returns a tree whose
\* import with strategy "rename" creates a dungeon under another name with
\* the rooms, categories and leaves (names, summary, notes, tags, metadata)
\* of X, and leaves X and its subtree unchanged.
C7_ExportImportRoundTrip ==
    [][res'.op = "export" =>
        \A u \in Owners, d \in DungeonTargets :
            (/\ \E x \in Live(dungeons) : x.user_id = u /\ x.name = d
             /\ Call(export_dungeon(TheStore, u, d))) =>
                /\ res'.status = "ok"
                /\ \A tree \in res'.out :
                      \A o \in import_dungeon(TheStore, u, tree, "rename") :
                          /\ o.res.status = "ok"
                          /\ o.res.name # d
                          /\ \E x \in Live(o.S.dungeons) :
                                x.user_id = u /\ x.name = o.res.name
                          /\ Subtree(o.S, u, o.res.name) = Subtree(TheStore, u, d)
                          /\ Subtree(o.S, u, d) = Subtree(TheStore, u, d)
                          /\ \A x \in Docs(dungeons) : CopiesIn(x, o.S.dungeons) = dungeons[x]
    ]_vars

\* Two one-character strings are the same letter in either case.
SameLetter(a, b) ==
    \/ a = b
    \/ \E k \in 1..Len(UpperCase) :
          {a, b} = {SubSeq(UpperCase, k, k), SubSeq(LowerCase, k, k)}

\* The text contains the query as a case-insensitive substring.
ContainsIgnoringCase(q, text) ==
    \E k \in 1..(Len(text) + 1) :
        /\ k + Len(q) - 1 <= Len(text)
        /\ \A j \in 1..Len(q) :
              SameLetter(SubSeq(q, j, j), SubSeq(text, k + j - 1, k + j - 1))

\* The owner's non-deleted leaves whose name or summary contains the query
\* whatever the case.
TextMatches(u, q) ==
    {i \in Live(items) :
        /\ i.user_id = u
        /\ \/ ContainsIgnoringCase(q, i.name)
           \/ i.summary # None /\ ContainsIgnoringCase(q, i.summary)}

SharesTag(i, tags_any) == \E k \in 1..Len(tags_any), j \in 1..Len(i.tags) : tags_any[k] = i.tags[j]

Match(i) ==
    [name |-> i.name, dungeon |-> i.dungeon, room |-> i.room, category |-> i.category,
     deleted |-> FALSE]

AnsweredConflict == res'.status = "error" /\ res'.code = "ERROR_CONFLICT"

\* C9: a create of a dungeon, room or leaf whose name a non-deleted sibling of
\* the same owner and parent scope holds, with exists_ok false, returns
\* ERROR_CONFLICT and leaves every stored row unchanged.
C9_DuplicateCreateConflicts ==
    [][res'.op \in {"dungeon.create", "room.create", "item.create"} =>
        /\ \A u \in Owners, n \in DungeonNames, m \in Summaries :
              (/\ \E x \in Live(dungeons) : x.user_id = u /\ x.name = n
               /\ Call(create_dungeon(TheStore, u, n, m, FALSE))) =>
                  AnsweredConflict /\ StoreUnchanged
        /\ \A u \in Owners, d \in DungeonTargets, n \in RoomNames, m \in Summaries :
              (/\ \E x \in Live(rooms) : x.user_id = u /\ x.dungeon = d /\ x.name = n
               /\ Call(create_room(TheStore, u, d, n, m, FALSE))) =>
                  AnsweredConflict /\ StoreUnchanged
        /\ \A u \in Owners, t \in CategoryTargets, p \in Payloads :
              (/\ LiveLeaves(u, t, p.name) # {}
               /\ Call(create_item(TheStore, u, t.dungeon, t.room, t.category, p, FALSE))) =>
                  AnsweredConflict /\ StoreUnchanged
    ]_vars

\* The part of C9 about dungeons, whose parent scope is the owner alone.
C9_DuplicateDungeonConflicts ==
    [][res'.op = "dungeon.create" =>
        \A u \in Owners, n \in DungeonNames, m \in Summaries :
            (/\ \E x \in Live(dungeons) : x.user_id = u /\ x.name = n
             /\ Call(create_dungeon(TheStore, u, n, m, FALSE))) =>
                AnsweredConflict /\ StoreUnchanged
    ]_vars

AnsweredNoop == res'.status = "ok" /\ res'.code = "NOOP" /\ ~res'.applied

\* The stored metadata with the supplied keys merged in: supplied keys
\* overwrite, other stored keys stay.
MetadataMerged(stored, supplied) ==
    [k \in DOMAIN stored \cup DOMAIN supplied |->
        IF k \in DOMAIN supplied THEN supplied[k] ELSE stored[k]]

\* C10: a create of a dungeon, room or leaf with exists_ok true whose name is
\* held returns ok with code NOOP and diff.applied false, and leaves the
\* existing row as it was but for the supplied metadata keys, merged into the
\* stored metadata; summary, notes and tags are not changed.
C10_ExistsOkIsNoop ==
    [][res'.op \in {"dungeon.create", "room.create", "item.create"} =>
        /\ \A u \in Owners, n \in DungeonNames, m \in Summaries :
              (/\ \E x \in Live(dungeons) : x.user_id = u /\ x.name = n
               /\ Call(create_dungeon(TheStore, u, n, m, TRUE))) =>
                  AnsweredNoop /\ StoreUnchanged
        /\ \A u \in Owners, d \in DungeonTargets, n \in RoomNames, m \in Summaries :
              (/\ \E x \in Live(rooms) : x.user_id = u /\ x.dungeon = d /\ x.name = n
               /\ Call(create_room(TheStore, u, d, n, m, TRUE))) =>
                  AnsweredNoop /\ StoreUnchanged
        /\ \A u \in Owners, t \in CategoryTargets, p \in Payloads :
              \A x \in LiveLeaves(u, t, p.name) :
                  Call(create_item(TheStore, u, t.dungeon, t.room, t.category, p, TRUE)) =>
                      /\ AnsweredNoop
                      /\ dungeons' = dungeons
                      /\ rooms' = rooms
                      /\ items' = ReplaceOneDoc(items, x,
                            [x EXCEPT !.metadata = MetadataMerged(@, p.metadata)])
    ]_vars

\* The part of C10 about leaves under a room and category that exist.
C10_ExistsOkLeafIsNoop ==
    [][res'.op = "item.create" =>
        \A u \in Owners, t \in CategoryTargets, p \in Payloads :
            \A x \in LiveLeaves(u, t, p.name) :
                (/\ RoomExists(TheStore, u, t.dungeon, t.room)
                 /\ t.category \in CATEGORIES
                 /\ Call(create_item(TheStore, u, t.dungeon, t.room, t.category, p, TRUE))) =>
                    /\ AnsweredNoop
                    /\ items' = ReplaceOneDoc(items, x,
                          [x EXCEPT !.metadata = MetadataMerged(@, p.metadata)])
    ]_vars

\* ------------------------------------------------------------------ C11
Results(outcomes) == {o.res : o \in outcomes}

NoRows == Store(EmptyBag, EmptyBag, EmptyBag)

Ownerless == {None, ""}

\* The outcomes of a call are all ERROR_VALIDATION, leave the store as it
\* is, and are the outcomes the same call has on the empty store.
Refused(outcomes, onNoRows) ==
    /\ outcomes # {}
    /\ \A o \in outcomes :
          /\ o.res.status = "error"
          /\ o.res.code = "ERROR_VALIDATION"
          /\ o.S = TheStore
    /\ Results(outcomes) = Results(onNoRows)

\* C11: in every store state, every store operation called without an owner
\* identifier (user_id None or empty) answers status error with code
\* ERROR_VALIDATION, changes no stored row, and answers what it answers on
\* the empty store (it reads no row).
C11_OwnerlessCallRefused ==
    res = Idle => \A u \in Ownerless :
        /\ \A n \in DungeonNames, m \in Summaries, e \in BOOLEAN :
              Refused(create_dungeon(TheStore, u, n, m, e), create_dungeon(NoRows, u, n, m, e))
        /\ Refused(list_dungeons(TheStore, u), list_dungeons(NoRows, u))
        /\ \A d \in DungeonTargets :
              /\ \A n \in DungeonNames :
                    Refused(rename_dungeon(TheStore, u, d, n), rename_dungeon(NoRows, u, d, n))
              /\ \A p \in NodePatches(DungeonNames) :
                    Refused(update_dungeon(TheStore, u, d, p), update_dungeon(NoRows, u, d, p))
              /\ \A k \in Tokens(DungeonPath(d)) :
                    Refused(delete_dungeon(TheStore, u, d, k), delete_dungeon(NoRows, u, d, k))
              /\ \A n \in RoomNames, m \in Summaries, e \in BOOLEAN :
                    Refused(create_room(TheStore, u, d, n, m, e), create_room(NoRows, u, d, n, m, e))
              /\ Refused(list_rooms(TheStore, u, d), list_rooms(NoRows, u, d))
              /\ Refused(export_dungeon(TheStore, u, d), export_dungeon(NoRows, u, d))
              /\ \A r \in RoomNames \cup {None}, c \in CategoryInputs \cup {None},
                    i \in ItemNames \cup {None} :
                    /\ Refused(stat(TheStore, u, d, r, c, i), stat(NoRows, u, d, r, c, i))
                    /\ Refused(list_children(TheStore, u, d, r, c),
                               list_children(NoRows, u, d, r, c))
        /\ \A t \in RoomTargets :
              /\ \A n \in RoomNames :
                    Refused(rename_room(TheStore, u, t.dungeon, t.room, n),
                            rename_room(NoRows, u, t.dungeon, t.room, n))
              /\ \A p \in NodePatches(RoomNames) :
                    Refused(update_room(TheStore, u, t.dungeon, t.room, p),
                            update_room(NoRows, u, t.dungeon, t.room, p))
              /\ \A k \in Tokens(RoomPath(t.dungeon, t.room)) :
                    Refused(delete_room(TheStore, u, t.dungeon, t.room, k),
                            delete_room(NoRows, u, t.dungeon, t.room, k))
        /\ \A t \in CategoryTargets :
              /\ \A p \in Payloads, e \in BOOLEAN :
                    Refused(create_item(TheStore, u, t.dungeon, t.room, t.category, p, e),
                            create_item(NoRows, u, t.dungeon, t.room, t.category, p, e))
              /\ Refused(list_category_items(TheStore, u, t.dungeon, t.room, t.category),
                         list_category_items(NoRows, u, t.dungeon, t.room, t.category))
              /\ Refused(ensure_category(TheStore, u, t.dungeon, t.room, t.category),
                         ensure_category(NoRows, u, t.dungeon, t.room, t.category))
        /\ \A t \in ItemTargets :
              /\ Refused(read_item(TheStore, u, t.dungeon, t.room, t.category, t.name),
                         read_item(NoRows, u, t.dungeon, t.room, t.category, t.name))
              /\ \A p \in ItemPatches :
                    Refused(update_item(TheStore, u, t.dungeon, t.room, t.category, t.name, p),
                            update_item(NoRows, u, t.dungeon, t.room, t.category, t.name, p))
              /\ \A n \in ItemNames :
                    Refused(rename_item(TheStore, u, t.dungeon, t.room, t.category, t.name, n),
                            rename_item(NoRows, u, t.dungeon, t.room, t.category, t.name, n))
              /\ \A k \in Tokens(ItemPath(t.dungeon, t.room, t.category, t.name)) :
                    Refused(delete_item(TheStore, u, t.dungeon, t.room, t.category, t.name, k),
                            delete_item(NoRows, u, t.dungeon, t.room, t.category, t.name, k))
              /\ \A b \in CategoryTargets, w \in BOOLEAN :
                    /\ Refused(move_item(TheStore, u, t, t.name, b, w),
                               move_item(NoRows, u, t, t.name, b, w))
                    /\ \A n \in {None, "Bat"} :
                          Refused(copy_item(TheStore, u, t, t.name, b, n, w),
                                  copy_item(NoRows, u, t, t.name, b, n, w))
        /\ \A q \in Queries, d \in SearchScopes, t \in TagFilters :
              Refused(search(TheStore, u, q, d, t), search(NoRows, u, q, d, t))
        /\ \A t \in Trees, g \in Strategies :
              Refused(import_dungeon(TheStore, u, t, g), import_dungeon(NoRows, u, t, g))

\* An ownerless stat of a stored dungeon was refused.
C11_OwnerlessStatRefused ==
    /\ res.op = "stat"
    /\ res.code = "ERROR_VALIDATION"
    /\ dungeons # EmptyBag
    /\ items # EmptyBag

\* ------------------------------------------------------------------ C12
\* The rows of a bag that owner u owns.
OwnedBy(B, u) ==
    LET kept == {doc \in DOMAIN B : doc.user_id = u}
    IN  [doc \in kept |-> B[doc]]

OwnRows(S, u) == Store(OwnedBy(S.dungeons, u), OwnedBy(S.rooms, u), OwnedBy(S.items, u))

\* What owner u sees of an outcome: the answer and u's own rows.
ViewOf(o, u) == [res |-> o.res, S |-> OwnRows(o.S, u)]

\* A call of owner u leaves every other owner's rows as they are, and its
\* answer and its effect on u's rows are those of the same call on a store
\* holding u's rows only.
Isolated(u, outcomes, alone) ==
    /\ \A o \in outcomes :
          o.S # TheStore => \A v \in Owners \ {u} : OwnRows(o.S, v) = OwnRows(TheStore, v)
    /\ {ViewOf(o, u) : o \in outcomes} = {ViewOf(o, u) : o \in alone}

\* C12: owner isolation. In every store state and for every owner u, every
\* store operation issued with owner u creates, modifies and deletes no row
\* of another owner, and its answer and its effect on u's rows do not depend
\* on the rows of other owners (cascades of rename, delete and import
\* included). Every reachable store state is also reached by exactly MaxOps
\* calls (calls that change nothing pad a shorter sequence), so the states
\* with nops = MaxOps cover all of them.
C12_OwnerIsolation ==
    (res = Idle /\ nops = MaxOps) => \A u \in Owners : LET own == OwnRows(TheStore, u) IN
        /\ \A n \in DungeonNames, m \in Summaries, e \in BOOLEAN :
              Isolated(u, create_dungeon(TheStore, u, n, m, e), create_dungeon(own, u, n, m, e))
        /\ Isolated(u, list_dungeons(TheStore, u), list_dungeons(own, u))
        /\ \A d \in DungeonTargets :
              /\ \A n \in DungeonNames :
                    Isolated(u, rename_dungeon(TheStore, u, d, n), rename_dungeon(own, u, d, n))
              /\ \A p \in NodePatches(DungeonNames) :
                    Isolated(u, update_dungeon(TheStore, u, d, p), update_dungeon(own, u, d, p))
              /\ \A k \in Tokens(DungeonPath(d)) :
                    Isolated(u, delete_dungeon(TheStore, u, d, k), delete_dungeon(own, u, d, k))
              /\ \A n \in RoomNames, m \in Summaries, e \in BOOLEAN :
                    Isolated(u, create_room(TheStore, u, d, n, m, e), create_room(own, u, d, n, m, e))
              /\ Isolated(u, list_rooms(TheStore, u, d), list_rooms(own, u, d))
              /\ Isolated(u, export_dungeon(TheStore, u, d), export_dungeon(own, u, d))
              /\ \A r \in RoomNames \cup {None}, c \in CategoryInputs \cup {None},
                    i \in ItemNames \cup {None} :
                    /\ Isolated(u, stat(TheStore, u, d, r, c, i), stat(own, u, d, r, c, i))
                    /\ Isolated(u, list_children(TheStore, u, d, r, c),
                               list_children(own, u, d, r, c))
        /\ \A t \in RoomTargets :
              /\ \A n \in RoomNames :
                    Isolated(u, rename_room(TheStore, u, t.dungeon, t.room, n),
                            rename_room(own, u, t.dungeon, t.room, n))
              /\ \A p \in NodePatches(RoomNames) :
                    Isolated(u, update_room(TheStore, u, t.dungeon, t.room, p),
                            update_room(own, u, t.dungeon, t.room, p))
              /\ \A k \in Tokens(RoomPath(t.dungeon, t.room)) :
                    Isolated(u, delete_room(TheStore, u, t.dungeon, t.room, k),
                            delete_room(own, u, t.dungeon, t.room, k))
        /\ \A t \in CategoryTargets :
              /\ \A p \in Payloads, e \in BOOLEAN :
                    Isolated(u, create_item(TheStore, u, t.dungeon, t.room, t.category, p, e),
                            create_item(own, u, t.dungeon, t.room, t.category, p, e))
              /\ Isolated(u, list_category_items(TheStore, u, t.dungeon, t.room, t.category),
                         list_category_items(own, u, t.dungeon, t.room, t.category))
              /\ Isolated(u, ensure_category(TheStore, u, t.dungeon, t.room, t.category),
                         ensure_category(own, u, t.dungeon, t.room, t.category))
        /\ \A t \in ItemTargets :
              /\ Isolated(u, read_item(TheStore, u, t.dungeon, t.room, t.category, t.name),
                         read_item(own, u, t.dungeon, t.room, t.category, t.name))
              /\ \A p \in ItemPatches :
                    Isolated(u, update_item(TheStore, u, t.dungeon, t.room, t.category, t.name, p),
                            update_item(own, u, t.dungeon, t.room, t.category, t.name, p))
              /\ \A n \in ItemNames :
                    Isolated(u, rename_item(TheStore, u, t.dungeon, t.room, t.category, t.name, n),
                            rename_item(own, u, t.dungeon, t.room, t.category, t.name, n))
              /\ \A k \in Tokens(ItemPath(t.dungeon, t.room, t.category, t.name)) :
                    Isolated(u, delete_item(TheStore, u, t.dungeon, t.room, t.category, t.name, k),
                            delete_item(own, u, t.dungeon, t.room, t.category, t.name, k))
              /\ \A b \in CategoryTargets, w \in BOOLEAN :
                    /\ Isolated(u, move_item(TheStore, u, t, t.name, b, w),
                               move_item(own, u, t, t.name, b, w))
                    /\ \A n \in {None, "Bat"} :
                          Isolated(u, copy_item(TheStore, u, t, t.name, b, n, w),
                                  copy_item(own, u, t, t.name, b, n, w))
        /\ \A q \in Queries, d \in SearchScopes, t \in TagFilters :
              Isolated(u, search(TheStore, u, q, d, t), search(own, u, q, d, t))
        /\ \A t \in Trees, g \in Strategies :
              Isolated(u, import_dungeon(TheStore, u, t, g), import_dungeon(own, u, t, g))

\* Two owners held identically named trees; one renamed its dungeon, and the
\* cascade moved its own room and left the other owner's tree in place.
C12_RenamedNextToNamesake ==
    /\ res.op = "dungeon.rename"
    /\ res.status = "ok"
    /\ \E u \in Owners, v \in Owners :
          /\ u # v
          /\ \E d \in Live(dungeons) : d.user_id = u /\ d.name = "B"
          /\ \E r \in Live(rooms) : r.user_id = u /\ r.dungeon = "B"
          /\ ~\E r \in Docs(rooms) : r.user_id = u /\ r.dungeon = "A"
          /\ \E d \in Live(dungeons) : d.user_id = v /\ d.name = "A"
          /\ \E r \in Live(rooms) : r.user_id = v /\ r.dungeon = "A"
          /\ \E x \in Live(items) : x.user_id = v /\ x.dungeon = "A"

\* ------------------------------------------------------------------ C13
ErrorCodes == {"ERROR_NOT_FOUND", "ERROR_CONFLICT", "ERROR_UNSAFE", "ERROR_VALIDATION"}

\* C13: every store call, in every store state, ends with an envelope: status
\* ok, or status error with one of the ERROR_ codes of the expected
\* conditions; no store call ends with a native exception.
C13_StoreCallsReturnEnvelopes ==
    res # Idle =>
        /\ res.status \in {"ok", "error"}
        /\ res.status = "error" => res.code \in ErrorCodes

\* ------------------------------------------------------------------ C14
\* The exception the manager is to raise for an error code.
ExceptionFor(code) ==
    IF code = "ERROR_NOT_FOUND" THEN "NotFoundError"
    ELSE IF code = "ERROR_CONFLICT" THEN "ConflictError"
    ELSE IF code = "ERROR_UNSAFE" THEN "UnsafeOperationError"
    ELSE "ValueError"

\* Whenever the store function answers an error envelope, the manager
\* function raises the exception of its code; whenever it answers an ok
\* envelope, the manager function returns a value.
Converted(store, manager) ==
    \A o \in store :
        /\ o.res.status = "error" =>
              \E m \in manager : m.S = o.S /\ m.res = Raised(o.res.op, ExceptionFor(o.res.code))
        /\ o.res.status = "ok" =>
              \E m \in manager : m.S = o.S /\ m.res.status = "returned"

\* C14: in every store state, for every manager function and every call,
\* an error envelope of the wrapped store function makes the manager raise
\* NotFoundError (ERROR_NOT_FOUND), ConflictError (ERROR_CONFLICT),
\* UnsafeOperationError (ERROR_UNSAFE) or ValueError (any other code), and an
\* ok envelope makes it return a plain value.
C14_ManagerConvertsEnvelopes ==
    res = Idle => \A u \in Callers :
        /\ \A n \in DungeonNames, m \in Summaries, e \in BOOLEAN :
              Converted(create_dungeon(TheStore, u, n, m, e),
                              dm_create_dungeon(TheStore, u, n, m, e))
        /\ Converted(list_dungeons(TheStore, u),
                              dm_list_dungeons(TheStore, u))
        /\ \A d \in DungeonTargets :
              /\ \A n \in DungeonNames :
                    Converted(rename_dungeon(TheStore, u, d, n),
                              dm_rename_dungeon(TheStore, u, d, n))
              /\ \A p \in NodePatches(DungeonNames) :
                    Converted(update_dungeon(TheStore, u, d, p),
                              dm_update_dungeon(TheStore, u, d, p))
              /\ \A k \in Tokens(DungeonPath(d)) :
                    Converted(delete_dungeon(TheStore, u, d, k),
                              dm_delete_dungeon(TheStore, u, d, k))
              /\ \A n \in RoomNames, m \in Summaries, e \in BOOLEAN :
                    Converted(create_room(TheStore, u, d, n, m, e),
                              dm_create_room(TheStore, u, d, n, e, m))
              /\ Converted(list_rooms(TheStore, u, d),
                              dm_list_rooms(TheStore, u, d))
              /\ Converted(export_dungeon(TheStore, u, d),
                              dm_export_dungeon(TheStore, u, d))
              /\ \A r \in RoomNames \cup {None}, c \in CategoryInputs \cup {None},
                    i \in ItemNames \cup {None} :
                    /\ Converted(stat(TheStore, u, d, r, c, i),
                              dm_stat(TheStore, u, d, r, c, i))
                    /\ Converted(list_children(TheStore, u, d, r, c),
                              dm_list_children(TheStore, u, d, r, c))
        /\ \A t \in RoomTargets :
              /\ \A n \in RoomNames :
                    Converted(rename_room(TheStore, u, t.dungeon, t.room, n),
                              dm_rename_room(TheStore, u, t.dungeon, t.room, n))
              /\ \A p \in NodePatches(RoomNames) :
                    Converted(update_room(TheStore, u, t.dungeon, t.room, p),
                              dm_update_room(TheStore, u, t.dungeon, t.room, p))
              /\ \A k \in Tokens(RoomPath(t.dungeon, t.room)) :
                    Converted(delete_room(TheStore, u, t.dungeon, t.room, k),
                              dm_delete_room(TheStore, u, t.dungeon, t.room, k))
        /\ \A t \in CategoryTargets :
              /\ \A p \in Payloads, e \in BOOLEAN :
                    Converted(create_item(TheStore, u, t.dungeon, t.room, t.category, p, e),
                              dm_create_item(TheStore, u, t.dungeon, t.room, t.category, p, e))
              /\ Converted(list_category_items(TheStore, u, t.dungeon, t.room, t.category),
                              dm_list_category_items(TheStore, u, t.dungeon, t.room, t.category))
              /\ Converted(ensure_category(TheStore, u, t.dungeon, t.room, t.category),
                              dm_ensure_category(TheStore, u, t.dungeon, t.room, t.category))
        /\ \A t \in ItemTargets :
              /\ Converted(read_item(TheStore, u, t.dungeon, t.room, t.category, t.name),
                              dm_read_item(TheStore, u, t.dungeon, t.room, t.category, t.name))
              /\ \A p \in ItemPatches :
                    Converted(update_item(TheStore, u, t.dungeon, t.room, t.category, t.name, p),
                              dm_update_item(TheStore, u, t.dungeon, t.room, t.category, t.name, p))
              /\ \A n \in ItemNames :
                    Converted(rename_item(TheStore, u, t.dungeon, t.room, t.category, t.name, n),
                              dm_rename_item(TheStore, u, t.dungeon, t.room, t.category, t.name, n))
              /\ \A k \in Tokens(ItemPath(t.dungeon, t.room, t.category, t.name)) :
                    Converted(delete_item(TheStore, u, t.dungeon, t.room, t.category, t.name, k),
                              dm_delete_item(TheStore, u, t.dungeon, t.room, t.category, t.name, k))
              /\ \A b \in CategoryTargets, w \in BOOLEAN :
                    /\ Converted(move_item(TheStore, u, t, t.name, b, w),
                              dm_move_item(TheStore, u, t, t.name, b, w))
                    /\ \A n \in {None, "Bat"} :
                          Converted(copy_item(TheStore, u, t, t.name, b, n, w),
                              dm_copy_item(TheStore, u, t, t.name, b, n, w))
        /\ \A q \in Queries, d \in SearchScopes, t \in TagFilters :
              Converted(search(TheStore, u, q, d, t),
                              dm_search(TheStore, u, q, d, t))
        /\ \A t \in Trees, g \in Strategies :
              Converted(import_dungeon(TheStore, u, t, g),
                              dm_import_dungeon(TheStore, u, t, g))

\* ------------------------------------------------------------------ C15
\* Copy of a leaf the store holds never gets past reading the source: no copy
\* returns an envelope with status ok, which leaves C15 (what holds whenever
\* copy returns COPIED) without a case to examine.
CopyNeverReturnsOk == res.op = "item.copy" => res.status # "ok"

\* No copy changes a stored row, the source included.
CopyChangesNothing == [][res'.op = "item.copy" => StoreUnchanged]_vars

\* ------------------------------------------------------------------ C16
StandardOkCodes ==
    {"CREATED", "UPDATED", "RENAMED", "DELETED_HARD", "LIST", "READ", "ENSURED", "MOVED",
     "COPIED", "NOOP", "BATCH"}

\* C16: every envelope a store operation or a DSL command produces has a
\* status among ok, error, skipped; with status ok its code is one of the
\* standard success codes, with status error its code begins with ERROR_.
C16_StandardFormat ==
    (res # Idle /\ res # NoEnvelope /\ res.status # "raised") =>
        /\ res.status \in {"ok", "error", "skipped"}
        /\ res.status = "ok" => res.code \in StandardOkCodes
        /\ res.status = "error" => StartsWith(res.code, "ERROR_")

\* ------------------------------------------------------------------ C17
\* The create line answers ok, and the query line executed next answers ok
\* with the created name among its results.
CreatedAndFound(line, query, name) ==
    \A o \in execute_command(TheStore, line) :
        /\ o.res.status = "ok"
        /\ \A p \in execute_command(o.S, query) :
              /\ p.res.status = "ok"
              /\ (p.res.name = name \/ \E x \in p.res.out : x.name = name)

\* C17: in every store state, a well-formed DSL create command (dungeon
\* create for a free name, room create under an existing dungeon, item create
\* with a valid category under an existing room) answers status ok, and the
\* matching DSL list or read command then returns the created node.
C17_DslCreateThenFound ==
    res = Idle =>
        /\ (~\E d \in Live(dungeons) : d.name = "A")
              => CreatedAndFound("dungeon create A", "dungeon list", "A")
        /\ ((\E d \in Live(dungeons) : d.name = "A")
                /\ ~\E r \in Live(rooms) : r.dungeon = "A" /\ r.name = "R")
              => CreatedAndFound("room create A R", "room list A", "R")
        /\ ((\E r \in Live(rooms) : r.dungeon = "A" /\ r.name = "R")
                /\ ~\E x \in Live(items) : x.dungeon = "A" /\ x.room = "R" /\ x.name = "Axe")
              => CreatedAndFound("item create A R traps Axe", "item read A R traps Axe", "Axe")

\* Lines whose verb is unknown, whose sub-verb is unknown for its entity, or
\* which have fewer positional arguments than the sub-verb requires.
MalformedLines ==
    {"frobnicate A", "dungeon frob A", "Dungeon Create", "room create A", "item read A R",
     "category ensure A R"}

\* C18: every malformed line (unknown verb, unknown sub-verb, too few
\* positional arguments) is answered by an envelope with status error and
\* code ERROR_PARSE, and the store is left as it was.
C18_MalformedLineIsParseError ==
    res = Idle =>
        \A line \in MalformedLines : \A o \in execute_command(TheStore, line) :
            /\ o.res.status = "error"
            /\ o.res.code = "ERROR_PARSE"
            /\ o.S = TheStore

\* C18, the part that holds: no malformed line changes the store, and a
\* line with an unknown verb is answered by ERROR_PARSE.
C18_MalformedLineChangesNothing ==
    res = Idle =>
        /\ \A line \in MalformedLines : \A o \in execute_command(TheStore, line) : o.S = TheStore
        /\ \A o \in execute_command(TheStore, "frobnicate A") :
               o.res.status = "error" /\ o.res.code = "ERROR_PARSE"

\* A blank line or a comment.
BlankOrComment(line) ==
    LET stripped == Strip(line, Whitespace)
    IN  stripped = "" \/ StartsWith(stripped, "#")

\* The sequences of envelopes execute_command returns for the lines of a
\* file, run in order from store S, leaving out the blank lines and comments
\* (strict) or the lines for which nothing was returned.
RECURSIVE EnvelopesOf(_, _, _)
EnvelopesOf(S, lines, strict) ==
    IF lines = <<>> THEN {<<>>}
    ELSE UNION {{IF (strict /\ BlankOrComment(Head(lines))) \/ (~strict /\ o.res = NoEnvelope)
                 THEN rest ELSE <<o.res>> \o rest :
                     rest \in EnvelopesOf(o.S, Tail(lines), strict)} :
                    o \in execute_command(S, Head(lines))}

Skipped(results) == Cardinality({k \in 1..Len(results) : results[k].status = "skipped"})

\* C19: the batch of a file counts every line once in ok, error or skipped,
\* counts as skipped only blank lines, comments and envelopes with status
\* skipped, holds the envelopes of all other lines in file order, and has
\* status ok exactly when no line failed.
C19_BatchCountsEveryLine ==
    res = Idle =>
        \A f \in Files : \A o \in execute_file(TheStore, TRUE, f) : \A b \in o.res.out :
            /\ o.res.code = "BATCH"
            /\ b.summary.lines_total = Len(f)
            /\ b.summary.ok + b.summary.error + b.summary.skipped = Len(f)
            /\ b.summary.skipped =
                   Cardinality({k \in 1..Len(f) : BlankOrComment(f[k])}) + Skipped(b.results)
            /\ b.results \in EnvelopesOf(TheStore, f, TRUE)
            /\ (o.res.status = "ok") <=> (b.summary.error = 0)

\* C19, the part that holds: the counts add up to the number of lines, the
\* results are the envelopes that were returned, in file order, and the
\* status is ok exactly when no line failed.
C19_BatchCountsEveryResult ==
    res = Idle =>
        \A f \in Files : \A o \in execute_file(TheStore, TRUE, f) : \A b \in o.res.out :
            /\ o.res.code = "BATCH"
            /\ b.summary.lines_total = Len(f)
            /\ b.summary.ok + b.summary.error + b.summary.skipped = Len(f)
            /\ b.summary.ok + b.summary.error + Skipped(b.results) = Len(b.results)
            /\ b.results \in EnvelopesOf(TheStore, f, FALSE)
            /\ (o.res.status = "ok") <=> (b.summary.error = 0)

\* The answers of the DSL and of the store agree in status, code and
\* diff.applied.
SameAnswer(dsl, store) ==
    /\ \A d \in dsl : \E s \in store :
           d.res.status = s.res.status /\ d.res.code = s.res.code /\ d.res.applied = s.res.applied
    /\ \A s \in store : \E d \in dsl :
           d.res.status = s.res.status /\ d.res.code = s.res.code /\ d.res.applied = s.res.applied

\* C20: the envelope execute_command returns for a command has the status,
\* the code and the diff.applied flag of the envelope the store function
\* returns for the call the command makes, in every store state.
C20_DslAnswersAsStore ==
    res = Idle =>
        /\ SameAnswer(execute_command(TheStore, "dungeon create B exists_ok"),
                      create_dungeon(TheStore, None, "B", None, TRUE))
        /\ SameAnswer(execute_command(TheStore, "room create A R"),
                      create_room(TheStore, None, "A", "R", None, FALSE))
        /\ SameAnswer(execute_command(TheStore, "category ensure A R traps"),
                      ensure_category(TheStore, None, "A", "R", "traps"))
        /\ SameAnswer(execute_command(TheStore, "item read A R traps Axe"),
                      read_item(TheStore, None, "A", "R", "traps", "Axe"))
        /\ SameAnswer(execute_command(TheStore, "item update A R traps Axe summary=new"),
                      update_item(TheStore, None, "A", "R", "traps", "Axe", [summary |-> "new"]))
        /\ SameAnswer(execute_command(TheStore, "item rename A R traps Axe Bat"),
                      rename_item(TheStore, None, "A", "R", "traps", "Axe", "Bat"))
        /\ SameAnswer(execute_command(TheStore, "stat A R"),
                      stat(TheStore, None, "A", "R", None, None))

\* C20, the part that holds: the commands other than item update and item
\* rename answer as the store does for the call they make, which is a call
\* without user_id.
C20_DslAnswersAsOwnerlessStore ==
    res = Idle =>
        /\ SameAnswer(execute_command(TheStore, "dungeon create B exists_ok"),
                      create_dungeon(TheStore, None, "B", None, TRUE))
        /\ SameAnswer(execute_command(TheStore, "room create A R"),
                      create_room(TheStore, None, "A", "R", None, FALSE))
        /\ SameAnswer(execute_command(TheStore, "category ensure A R traps"),
                      ensure_category(TheStore, None, "A", "R", "traps"))
        /\ SameAnswer(execute_command(TheStore, "item read A R traps Axe"),
                      read_item(TheStore, None, "A", "R", "traps", "Axe"))
        /\ SameAnswer(execute_command(TheStore, "stat A R"),
                      stat(TheStore, None, "A", "R", None, None))
        /\ \A o \in execute_command(TheStore, "item update A R traps Axe summary=new")
                    \cup execute_command(TheStore, "item rename A R traps Axe Bat") :
               o.res.status = "error" /\ o.res.code = "ERROR_INTERNAL" /\ o.S = TheStore

\* Lines with quoted spans whose closing quote is followed by whitespace or
\* ends the line, and words with an apostrophe inside, each with the tokens
\* the sentence of C30 gives it.
QuotedLines ==
    {<<"room create A R \"a Bat\"", <<"room", "create", "A", "R", "a Bat">>>>,
     <<"x \"a  b\" c", <<"x", "a  b", "c">>>>,
     <<"s='a b' t", <<"s=a b", "t">>>>,
     <<"say \"it's a\" b", <<"say", "it's a", "b">>>>,
     <<"a 'b\"c' d", <<"a", "b\"c", "d">>>>,
     <<"take Bob's axe", <<"take", "Bob's", "axe">>>>}

\* Lines whose closing quote is followed by another character of the
\* token, as in meta=value="5000gp",weight="2lbs".
QuotedInsideLines ==
    {<<"m=v=\"5\",w=\"2 lb\"", <<"m=v=5,w=2 lb">>>>,
     <<"d=\"1d\",t=p x", <<"d=1d,t=p", "x">>>>}

\* C30: tokenize keeps every quoted span that opens at a token boundary in
\* one token, inner whitespace kept and the delimiting quotes removed,
\* splits the text after the closing quote on whitespace, and keeps an
\* apostrophe inside a word as a character of its token.
C30_QuotedSpanIsOneToken ==
    res = Idle => \A l \in QuotedLines \cup QuotedInsideLines : tokenize(l[1]) = l[2]

\* C30, the part that holds: the same for the spans whose closing quote is
\* followed by whitespace or ends the line.
C30_QuotedSpanBeforeWhitespace ==
    res = Idle => \A l \in QuotedLines : tokenize(l[1]) = l[2]

\* C29: every stored leaf entry is filed under one of the four fixed
\* categories.
C29_LeavesInFixedCategories ==
    \A i \in Docs(items) : i.category \in CATEGORIES

\* C29, the part that holds: a category other than the four comes into the
\* store by import only; create, copy and move refuse it.
C29_OnlyImportStoresOtherCategories ==
    [][(\E i \in Docs(items') : /\ i.category \notin CATEGORIES
                                  /\ \A j \in Docs(items) : j.category # i.category)
           => res'.op = "import"]_vars

\* The owner has a non-deleted dungeon, or a non-deleted room, of the name.
LiveDungeon(u, d) == \E x \in Live(dungeons) : x.user_id = u /\ x.name = d

LiveRoom(u, d, r) == \E x \in Live(rooms) : x.user_id = u /\ x.dungeon = d /\ x.name = r

\* The names of the non-deleted rooms of a dungeon, and of the non-deleted
\* leaves of a category.
LiveRoomNames(u, d) == {x.name : x \in {y \in Live(rooms) : y.user_id = u /\ y.dungeon = d}}

LiveLeafNames(u, d, r, c) ==
    {x.name : x \in {y \in Live(items) : /\ y.user_id = u /\ y.dungeon = d
                                         /\ y.room = r /\ y.category = c}}

\* list of the path answers LIST with exactly the children, or
\* ERROR_NOT_FOUND when the addressed node is absent.
ListedOrNotFound(u, d, r, c, present, children) ==
    \A o \in list_children(TheStore, u, d, r, c) :
        IF present
        THEN o.res.status = "ok" /\ o.res.code = "LIST" /\ {e.name : e \in o.res.out} = children
        ELSE o.res.status = "error" /\ o.res.code = "ERROR_NOT_FOUND"

\* C28: list of a path returns exactly the non-deleted direct children of
\* the addressed node (rooms of a dungeon, the four categories of a room,
\* leaves of a category) and ERROR_NOT_FOUND whenever the addressed dungeon
\* or room does not exist.
C28_ListReturnsChildren ==
    res = Idle =>
        \A u \in Owners, d \in DungeonNames, r \in RoomNames, c \in CATEGORIES :
            /\ ListedOrNotFound(u, d, None, None, LiveDungeon(u, d), LiveRoomNames(u, d))
            /\ ListedOrNotFound(u, d, r, None, LiveDungeon(u, d) /\ LiveRoom(u, d, r), CATEGORIES)
            /\ ListedOrNotFound(u, d, r, c, LiveDungeon(u, d) /\ LiveRoom(u, d, r),
                                LiveLeafNames(u, d, r, c))

\* C28, the part that holds: the same for the list of a dungeon and the
\* list of a category; the list of a room is answered whenever the dungeon
\* exists.
C28_ListOfDungeonAndCategory ==
    res = Idle =>
        \A u \in Owners, d \in DungeonNames, r \in RoomNames, c \in CATEGORIES :
            /\ ListedOrNotFound(u, d, None, None, LiveDungeon(u, d), LiveRoomNames(u, d))
            /\ ListedOrNotFound(u, d, r, None, LiveDungeon(u, d), CATEGORIES)
            /\ ListedOrNotFound(u, d, r, c, LiveDungeon(u, d) /\ LiveRoom(u, d, r),
                                LiveLeafNames(u, d, r, c))

\* Every non-deleted room lies in a non-deleted dungeon of its owner and
\* every non-deleted leaf in a non-deleted room of its owner.
NoOrphans(S) ==
    /\ \A r \in {x \in Docs(S.rooms) : ~x.deleted} :
           \E d \in Docs(S.dungeons) : d.user_id = r.user_id /\ d.name = r.dungeon /\ ~d.deleted
    /\ \A i \in {x \in Docs(S.items) : ~x.deleted} :
           \E r \in Docs(S.rooms) :
               r.user_id = i.user_id /\ r.dungeon = i.dungeon /\ r.name = i.room /\ ~r.deleted

\* A create under a missing parent answers ERROR_NOT_FOUND and inserts
\* nothing.
CreateUnderMissingParentRefused ==
    \A u \in Owners, d \in DungeonNames, r \in RoomNames :
        /\ ~LiveDungeon(u, d) =>
               \A o \in create_room(TheStore, u, d, r, None, FALSE) :
                   o.res.code = "ERROR_NOT_FOUND" /\ o.S = TheStore
        /\ ~LiveRoom(u, d, r) =>
               \A p \in Payloads : \A o \in create_item(TheStore, u, d, r, "traps", p, FALSE) :
                   o.res.code = "ERROR_NOT_FOUND" /\ o.S = TheStore

\* C27: after any sequence of completed operations run one at a time no
\* non-deleted room or leaf is an orphan, and a create under a missing
\* parent answers ERROR_NOT_FOUND and inserts nothing.
C27_NoOrphansAfterCompletedCalls ==
    res = Idle => NoOrphans(TheStore) /\ CreateUnderMissingParentRefused

\* C27, the part that holds: a create under a missing parent is refused.
C27_CreateUnderMissingParentRefused ==
    res = Idle => CreateUnderMissingParentRefused

\* C27, the part that holds: only import_dungeon turns a store without
\* orphans into one with orphans.
C27_OnlyImportOrphans ==
    [][(NoOrphans(TheStore) /\ ~NoOrphans(TheStoreAfter)) => res'.op = "import"]_vars

\* The outcomes of a call by class (ok, or the error code, or the exception)
\* and by the rows they leave.
ClassAndRows(outcomes) ==
    {<<IF o.res.status = "ok" THEN "ok" ELSE o.res.code, o.S>> : o \in outcomes}

\* C26: a patch with a name key and a rename to the same new name have the
\* same outcome class and leave the same rows, for dungeons and for rooms,
\* the new name being free, the current name or a sibling's name.
C26_PatchNameIsRename ==
    res = Idle =>
        \A u \in Owners, d \in DungeonNames, n \in DungeonNames :
            /\ ClassAndRows(update_dungeon(TheStore, u, d, [name |-> n]))
                   = ClassAndRows(rename_dungeon(TheStore, u, d, n))
            /\ \A r \in RoomNames, m \in RoomNames :
                   ClassAndRows(update_room(TheStore, u, d, r, [name |-> m]))
                       = ClassAndRows(rename_room(TheStore, u, d, r, m))

\* C26, the part that holds: the same for a new name other than the
\* current one, in a store where every room lies in a dungeon.
C26_PatchOtherNameIsRename ==
    (res = Idle /\ NoOrphans(TheStore)) =>
        \A u \in Owners, d \in DungeonNames : \A n \in DungeonNames \ {d} :
            /\ ClassAndRows(update_dungeon(TheStore, u, d, [name |-> n]))
                   = ClassAndRows(rename_dungeon(TheStore, u, d, n))
            /\ \A r \in RoomNames : \A m \in RoomNames \ {r} :
                   ClassAndRows(update_room(TheStore, u, d, r, [name |-> m]))
                       = ClassAndRows(rename_room(TheStore, u, d, r, m))

\* Every thread has returned or raised.
AllDone == \A t \in DOMAIN calls : calls[t].pc = "done"

\* C23: under every interleaving of concurrently running store operations of
\* one owner, once all of them have completed every non-deleted room
\* references an existing non-deleted dungeon and every non-deleted leaf an
\* existing non-deleted room.
C23_NoOrphansAfterConcurrentCalls ==
    (calls # <<>> /\ AllDone) => NoOrphans(TheStore)

\* The live rows the create request c is about.
RowsNamed(c) ==
    CASE c.op = "dungeon.create" ->
           {d \in Live(dungeons) : d.user_id = c.user_id /\ d.name = c.name}
      [] c.op = "room.create" ->
           {r \in Live(rooms) : r.user_id = c.user_id /\ r.dungeon = c.dungeon /\ r.name = c.name}
      [] c.op = "item.create" ->
           {i \in Live(items) : /\ i.user_id = c.user_id /\ i.dungeon = c.dungeon
                                /\ i.room = c.room /\ i.name = c.name}

\* The parent the create request c names is stored and live.
ParentLive(c) ==
    CASE c.op = "dungeon.create" -> TRUE
      [] c.op = "room.create" -> LiveDungeon(c.user_id, c.dungeon)
      [] c.op = "item.create" -> LiveRoom(c.user_id, c.dungeon, c.room)

\* Both threads ran a create of kind op for the same name in the same live
\* parent and have completed.
RacedCreates(op) ==
    /\ calls # <<>>
    /\ AllDone
    /\ \A t \in Threads : calls[t].op = op /\ ParentLive(calls[t])

\* One thread answered CREATED and the other ERROR_CONFLICT, or NOOP when its
\* exists_ok is true, and one live row has the name.
OneCreatedOneRefused ==
    /\ \E t \in Threads :
          /\ calls[t].res.status = "ok" /\ calls[t].res.code = "CREATED"
          /\ \A o \in Threads \ {t} :
                \/ calls[o].res.status = "error" /\ calls[o].res.code = "ERROR_CONFLICT"
                \/ calls[o].exists_ok /\ calls[o].res.status = "ok" /\ calls[o].res.code = "NOOP"
    /\ \A t \in Threads : Cardinality(RowsNamed(calls[t])) = 1

\* C21: when two creates for the same name in the same parent scope and owner
\* run concurrently, under every interleaving exactly one inserts a row and
\* returns CREATED, the other returns ERROR_CONFLICT (or NOOP when its
\* exists_ok is true), and exactly one non-deleted row with that name exists
\* afterwards.
C21_OneCreateWins ==
    \A op \in {"dungeon.create", "room.create", "item.create"} :
        RacedCreates(op) => OneCreatedOneRefused

\* C21, rooms and leaves: the claim's outcome for two racing create_room or
\* create_item calls.
C21_OneRoomOrLeafCreateWins ==
    \A op \in {"room.create", "item.create"} :
        RacedCreates(op) => OneCreatedOneRefused

\* C21, dungeons: two racing create_dungeon calls leave one live row, and
\* neither returns CREATED: the one that inserted raises AttributeError.
C21_RacedDungeonCreatesLeaveOneRow ==
    RacedCreates("dungeon.create") =>
        /\ \A t \in Threads : Cardinality(RowsNamed(calls[t])) = 1
        /\ \E t \in Threads : calls[t].res.status = "raised"
        /\ \A t \in Threads : calls[t].res.code # "CREATED"

\* Two create_room calls for A/S have raced to completion.
C21_RoomCreatesRaced == RacedCreates("room.create") /\ OneCreatedOneRefused

\* The documents of a collection stored before the threads started (a thread
\* inserts under its own number).
StoredBefore(B) == {doc \in Docs(B) : doc._id \notin Threads}

\* The rooms and leaves stored before the threads started, all of dungeon A,
\* carry the name of A's row, which is still stored.
ListedUnderOwnRow ==
    /\ \A r \in StoredBefore(rooms) :
          \E d \in StoredBefore(dungeons) : ~d.deleted /\ d.name = r.dungeon
    /\ \A i \in StoredBefore(items) :
          \E d \in StoredBefore(dungeons) : ~d.deleted /\ d.name = i.dungeon

\* No room or leaf stored before the threads started was rewritten.
NoDescendantRewritten ==
    /\ \A r \in StoredBefore(rooms) : r.dungeon = "A"
    /\ \A i \in StoredBefore(items) : i.dungeon = "A"

\* Thread t patched A to C while the other thread created C, and both have
\* completed.
PatchRacedCreate(t) ==
    /\ calls # <<>>
    /\ AllDone
    /\ calls[t].op = "dungeon.update"
    /\ \E o \in Threads \ {t} : calls[o].op = "dungeon.create"

\* C24: when a patch renaming dungeon A to C runs concurrently with a create
\* of C, the rooms and leaves of A are never re-attached to the other
\* dungeon: after both complete they are listed under the row they belonged
\* to, and a patch that does not end with status ok has rewritten no
\* descendant.
C24_DescendantsStayWithTheirCollection ==
    \A t \in DOMAIN calls :
        PatchRacedCreate(t) =>
            /\ ListedUnderOwnRow
            /\ calls[t].res.status # "ok" => NoDescendantRewritten

\* C24, what the patch does keep: a patch that answers ERROR_NOT_FOUND or
\* ERROR_CONFLICT has rewritten no descendant.
C24_RefusedPatchRewritesNothing ==
    \A t \in DOMAIN calls :
        (PatchRacedCreate(t) /\ calls[t].res.status = "error") => NoDescendantRewritten

\* Thread t is a rename or delete of dungeon A that has rewritten or removed
\* the row and has not begun its cascade.
RowDoneCascadePending(t) ==
    /\ calls[t].op \in {"dungeon.rename", "dungeon.delete"}
    /\ calls[t].pc = "rooms"

\* The step in which a rename or delete of dungeon A by thread t rewrites or
\* removes the row: A is a live dungeon before it and not after it.
RowStep(t) ==
    /\ calls[t].op \in {"dungeon.rename", "dungeon.delete"}
    /\ calls'[t] # calls[t]
    /\ LiveDungeon("u1", "A")
    /\ ~\E d \in Live(dungeons') : d.user_id = "u1" /\ d.name = "A"

\* The row step leaves every room and leaf stored as before, still carrying
\* the name A, and the function has accesses left to make (its cascade).
RowStepLeavesDescendants ==
    \A t \in DOMAIN calls :
        RowStep(t) =>
            /\ rooms' = rooms
            /\ items' = items
            /\ ~calls'[t].pc = "done"

\* C22: the rename and delete cascades are not atomic toward readers: the
\* access that renames or removes the dungeon row changes no room and no
\* leaf, so until the cascade runs the store holds the dungeon renamed or
\* removed with its rooms and leaves still under the old name, which a
\* concurrently running list observes.
C22_CascadeNotAtomic == [][RowStepLeavesDescendants]_vars

\* C22, the reader: a list_rooms that has returned while the renamer or
\* deleter of A has not begun its cascade answered for the new name C with no
\* room, or ERROR_NOT_FOUND for A, whatever rooms A holds.
C22_ReaderObservesIntermediateState ==
    \A t \in DOMAIN calls : \A o \in DOMAIN calls :
        (RowDoneCascadePending(t) /\ calls[o].op = "room.list" /\ calls[o].pc = "done") =>
            \/ calls[o].res.status = "ok" /\ calls[o].res.out \subseteq LiveRoomNames("u1", "A")
               /\ (calls[o].dungeon = "C" => calls[o].res.out = {})
            \/ calls[o].res.status = "error" /\ calls[o].res.code = "ERROR_NOT_FOUND"

\* A list_rooms("C") found the renamed dungeon and returned no room while
\* room R still carries the old name A and the cascade has not begun.
C22_ReaderSawRenamedDungeonWithoutRooms ==
    \E t \in DOMAIN calls : \E o \in DOMAIN calls :
        /\ RowDoneCascadePending(t)
        /\ calls[t].op = "dungeon.rename"
        /\ LiveDungeon("u1", "C")
        /\ LiveRoomNames("u1", "A") = {"R"}
        /\ calls[o].op = "room.list" /\ calls[o].dungeon = "C"
        /\ calls[o].res.status = "ok" /\ calls[o].res.code = "LIST" /\ calls[o].res.out = {}

=============================================================================
